---- MODULE Spec2Model ----
(***************************************************************************)
(* Verification model of the IoT phone-sensor servers:                     *)
(*   servidor_web.py    UDP ingest + sliding window + prediction + status  *)
(*   servidor_basico.py the same loop, single threaded, printing           *)
(*   servidor.py        JSON ingest into rows / LAST / BUFF + HAR model    *)
(* Time is an integer clock.  For servidor_web.py / servidor_basico.py one *)
(* tick is 1/(2*TicksPerHalfSec) second.  Processing takes no time at the  *)
(* resolution of the clock: the clock advances while a loop is blocked in  *)
(* recvfrom.  Numbers are integers; a mean is kept as the pair             *)
(* <<sum, count>> and published rounded to six decimals (micro units).     *)
(***************************************************************************)
EXTENDS Integers, Sequences, FiniteSets, TLC

(* ------------------------------ bounds -------------------------------- *)
TicksPerHalfSec == 2
MaxClock == 10
MaxRecv == 3
MaxRecvBasico == 4
MaxRecvServidor == 3
NumReaders == 1
MaxSetBacks == 1
MaxSetBack == 2

(* --------------------------- configuration ---------------------------- *)
WINDOW_SEC == 2 * TicksPerHalfSec
STEP_SEC == TicksPerHalfSec
RECV_TIMEOUT == 2 * TicksPerHalfSec
MESSAGE_LENGTH == 13
MIN_SAMPLES == 3
Micro == 1000000
\* f5_threshold_default = 13.1425, as the fraction F5ThrNum / F5ThrDen
F5ThrNum == 131425
F5ThrDen == 10000

(* ------------------------------ helpers ------------------------------- *)
None == [t |-> "None"]

NotRun == [t |-> "NotRun"]

\* float("nan"), the one value that is no number: an integer no sum of the
\* values of the model reaches
NaN == 0 - 1000000000

IsNaN(v) == v = NaN

RECURSIVE SumSeq(_)
SumSeq(s) ==
    IF s = <<>> THEN 0
    ELSE IF Len(s) = 1 THEN s[1]
    ELSE LET h == Len(s) \div 2
         IN  SumSeq(SubSeq(s, 1, h)) + SumSeq(SubSeq(s, h + 1, Len(s)))

RECURSIVE Pow2(_)
Pow2(n) == IF n = 0 THEN 1 ELSE 2 * Pow2(n - 1)

(* ------------------------- binary frame decoder ------------------------ *)
\* SENSOR_TAG_MAP = {ord('A'): "acc", ord('a'): "acc", 1: "acc"}
SENSOR_TAG_MAP == [tag \in {65, 97, 1} |-> "acc"]

\* A tag table without the small-integer code of the group
TagGetLetters(tag) == IF tag \in {65, 97} THEN "acc" ELSE "NoPref"

\* SENSOR_TAG_MAP.get(tag)
TagGet(tag) == IF tag \in DOMAIN SENSOR_TAG_MAP THEN SENSOR_TAG_MAP[tag] ELSE "NoPref"

\* The IEEE-754 binary32 value of four bytes b0..b3 (b0 the least significant
\* byte), for the values the frames of this model carry: signed integers.
\* sign = top bit of b3, exponent = 7 low bits of b3 and top bit of b2,
\* mantissa = 7 low bits of b2, b1, b0.
F32Value(b0, b1, b2, b3) ==
    LET sign == b3 \div 128
        e    == (b3 % 128) * 2 + (b2 \div 128)
        m    == (b2 % 128) * 65536 + b1 * 256 + b0
        sig  == 8388608 + m
        mag  == CASE e = 0 /\ m = 0 -> 0
                  [] e >= 127 /\ e <= 150 /\ sig % Pow2(150 - e) = 0
                       -> sig \div Pow2(150 - e)
    IN  IF e = 255 /\ m # 0 THEN NaN
        ELSE IF sign = 1 THEN 0 - mag ELSE mag

\* struct.unpack_from('<f', pkt, off)[0]; pkt is indexed from 0 in the source
\* and from 1 here.
unpack_from_f(pkt, off) ==
    F32Value(pkt[off + 1], pkt[off + 2], pkt[off + 3], pkt[off + 4])

\* decode_serialsensor_binary(pkt) of servidor_web.py / servidor_basico.py /
\* servidor_final_web.py: ("acc", x, y, z) or None.  pkt is a datagram
\* record: len is its length and bytes its content.
decode_serialsensor_binary(pkt) ==
    IF pkt.len # MESSAGE_LENGTH THEN None
    ELSE LET tag  == pkt.bytes[1]
             pref == TagGet(tag)
         IN  IF pref # "acc" THEN None
             ELSE [t |-> "acc",
                   x |-> unpack_from_f(pkt.bytes, 1),
                   y |-> unpack_from_f(pkt.bytes, 5),
                   z |-> unpack_from_f(pkt.bytes, 9)]

(* ----------------------------- strings ------------------------------- *)
\* A Python str is the sequence of its characters.
LowerChar(c) ==
    CASE c = "A" -> "a" [] c = "C" -> "c" [] c = "E" -> "e" [] c = "L" -> "l"
      [] c = "X" -> "x" [] c = "Y" -> "y" [] c = "Z" -> "z" [] c = "G" -> "g"
      [] OTHER -> c

\* str.lower()
Lower(s) == [i \in 1..Len(s) |-> LowerChar(s[i])]

\* str.strip(): leading and trailing blanks removed
RECURSIVE LStrip(_)
LStrip(s) == IF s # <<>> /\ Head(s) = " " THEN LStrip(Tail(s)) ELSE s

RECURSIVE RStrip(_)
RStrip(s) ==
    IF s # <<>> /\ s[Len(s)] = " " THEN RStrip(SubSeq(s, 1, Len(s) - 1)) ELSE s

Strip(s) == RStrip(LStrip(s))

\* ":" in k
HasColon(k) == \E i \in 1..Len(k) : k[i] = ":"

\* k.split(":", 1): the parts before and after the first ":"
Split1(k) ==
    LET i == CHOOSE j \in 1..Len(k) :
                 k[j] = ":" /\ \A h \in 1..(j - 1) : k[h] # ":"
    IN  <<SubSeq(k, 1, i - 1), SubSeq(k, i + 1, Len(k))>>

\* s.startswith(p)
StartsWith(s, p) == Len(s) >= Len(p) /\ SubSeq(s, 1, Len(p)) = p

S_acc == <<"a", "c", "c">>
S_accel == <<"a", "c", "c", "e", "l">>
S_accelerometer ==
    <<"a", "c", "c", "e", "l", "e", "r", "o", "m", "e", "t", "e", "r">>
S_gyro == <<"g", "y", "r", "o">>
S_sensordata == <<"s", "e", "n", "s", "o", "r", "d", "a", "t", "a">>
S_x == <<"x">>
S_y == <<"y">>
S_z == <<"z">>

AccNames == {S_accel, S_accelerometer, S_acc}
AxisNames == {S_x, S_y, S_z}

(* ------------------------------- JSON ---------------------------------- *)
\* A JSON value as json.loads returns it: t is its Python type, n its number
\* (num, the number a numeric string spells, 0/1 for a bool), items the
\* members of a dict (key k, value v, in document order) or of a list
\* (k empty).  "bigint" is an int too large for a double (a JSON integer
\* literal of more than 308 digits); "invalid" is a text json.loads rejects.
JNum(n) == [t |-> "num", n |-> n, items |-> <<>>]
JBigInt == [t |-> "bigint", n |-> 0, items |-> <<>>]
JNumStr(n) == [t |-> "numstr", n |-> n, items |-> <<>>]
JStr == [t |-> "str", n |-> 0, items |-> <<>>]
JNull == [t |-> "null", n |-> 0, items |-> <<>>]
JBool(b) == [t |-> "bool", n |-> b, items |-> <<>>]
JList(vals) ==
    [t |-> "list", n |-> 0,
     items |-> [i \in 1..Len(vals) |-> [k |-> <<>>, v |-> vals[i]]]]
JObj(items) == [t |-> "dict", n |-> 0, items |-> items]
JInvalid == [t |-> "invalid", n |-> 0, items |-> <<>>]
KV(k, v) == [k |-> k, v |-> v]

\* float(val): the value, or the exception float() raises
PyFloat(val) ==
    CASE val.t \in {"num", "numstr", "bool"} -> [exc |-> "none", v |-> val.n]
      [] val.t = "bigint" -> [exc |-> "OverflowError", v |-> 0]
      [] val.t = "str" -> [exc |-> "ValueError", v |-> 0]
      [] OTHER -> [exc |-> "TypeError", v |-> 0]

\* d.get(key) of a dict's items (keys are unique, the last one wins)
RECURSIVE DictGet(_, _)
DictGet(items, key) ==
    IF items = <<>> THEN None
    ELSE IF items[Len(items)].k = key THEN items[Len(items)].v
    ELSE DictGet(SubSeq(items, 1, Len(items) - 1), key)

Triple(pref, a, v) == [pref |-> pref, axis |-> a[1], val |-> v]

(* ------------------- iter_pairs_from_json_msg -------------------------- *)
\* The triple a flat "sensor:axis" key yields (servidor_web.py 77-87)
FlatTriples(item) ==
    IF ~HasColon(item.k) THEN <<>>
    ELSE LET sa == Split1(item.k)
             s  == Lower(Strip(sa[1]))
             a  == Lower(Strip(sa[2]))
         IN  IF s \in AccNames /\ a \in AxisNames
             THEN <<Triple("acc", a, item.v)>>
             ELSE <<>>

\* for axis, val in payload.items(): a = str(axis).lower() (servidor_web.py 96-103)
RECURSIVE AxisMapTriples(_)
AxisMapTriples(items) ==
    IF items = <<>> THEN <<>>
    ELSE LET a == Lower(Head(items).k)
         IN  (IF a \in AxisNames THEN <<Triple("acc", a, Head(items).v)>> ELSE <<>>)
             \o AxisMapTriples(Tail(items))

\* zip(("x","y","z"), payload[:3]) (servidor_web.py 104-107)
ListTriples(items) ==
    <<Triple("acc", S_x, items[1].v), Triple("acc", S_y, items[2].v),
      Triple("acc", S_z, items[3].v)>>

\* One sensor of "sensordata" in servidor_web.py: an axis-keyed map or a list
SensorTriplesWeb(item) ==
    IF ~StartsWith(Lower(item.k), S_acc) THEN <<>>
    ELSE IF item.v.t = "dict" THEN AxisMapTriples(item.v.items)
    ELSE IF item.v.t = "list" /\ Len(item.v.items) >= 3 THEN ListTriples(item.v.items)
    ELSE <<>>

\* One sensor of "sensordata" in servidor_basico.py: a list only (86-91)
SensorTriplesBasico(item) ==
    IF ~StartsWith(Lower(item.k), S_acc) THEN <<>>
    ELSE IF item.v.t = "list" /\ Len(item.v.items) >= 3 THEN ListTriples(item.v.items)
    ELSE <<>>

RECURSIVE FlatAll(_)
FlatAll(items) ==
    IF items = <<>> THEN <<>> ELSE FlatTriples(Head(items)) \o FlatAll(Tail(items))

RECURSIVE SensorsWeb(_)
SensorsWeb(items) ==
    IF items = <<>> THEN <<>>
    ELSE SensorTriplesWeb(Head(items)) \o SensorsWeb(Tail(items))

RECURSIVE SensorsBasico(_)
SensorsBasico(items) ==
    IF items = <<>> THEN <<>>
    ELSE SensorTriplesBasico(Head(items)) \o SensorsBasico(Tail(items))

\* iter_pairs_from_json_msg(msg) of servidor_web.py, msg a dict: the triples
\* in the order the generator yields them
iter_pairs_from_json_msg(msg) ==
    LET sd == DictGet(msg.items, S_sensordata)
    IN  FlatAll(msg.items) \o (IF sd.t = "dict" THEN SensorsWeb(sd.items) ELSE <<>>)

\* iter_pairs_from_json_msg(msg) of servidor_basico.py
iter_pairs_from_json_msg_basico(msg) ==
    LET sd == DictGet(msg.items, S_sensordata)
    IN  FlatAll(msg.items) \o (IF sd.t = "dict" THEN SensorsBasico(sd.items) ELSE <<>>)

\* axes that start at 0.0 instead of None
ZeroAxes == [a \in {"x", "y", "z"} |-> 0]

\* axes = {"x": None, "y": None, "z": None}: an axis is None when it is not
\* in the domain of the function.
EmptyAxes == [a \in {} |-> 0]

SetAxis(axes, a, v) == [b \in (DOMAIN axes) \cup {a} |-> IF b = a THEN v ELSE axes[b]]

\* None not in axes.values()
AxesComplete(axes) == DOMAIN axes = {"x", "y", "z"}

\* servidor_web.py 181-188: axes[axis] = float(val), TypeError and ValueError
\* swallowed, any other exception leaving the loop.  The result is the axes
\* and the exception that escaped ("none" when none did).
RECURSIVE FillAxesWeb(_, _)
FillAxesWeb(triples, axes) ==
    IF triples = <<>> THEN [axes |-> axes, exc |-> "none"]
    ELSE LET f == PyFloat(Head(triples).val)
         IN  IF f.exc = "none"
             THEN FillAxesWeb(Tail(triples), SetAxis(axes, Head(triples).axis, f.v))
             ELSE IF f.exc \in {"TypeError", "ValueError"}
             THEN FillAxesWeb(Tail(triples), axes)
             ELSE [axes |-> axes, exc |-> f.exc]

\* servidor_basico.py 159-161: axes[axis] = float(val) with no handler
RECURSIVE FillAxesBasico(_, _)
FillAxesBasico(triples, axes) ==
    IF triples = <<>> THEN [axes |-> axes, exc |-> "none"]
    ELSE LET f == PyFloat(Head(triples).val)
         IN  IF f.exc = "none"
             THEN FillAxesBasico(Tail(triples), SetAxis(axes, Head(triples).axis, f.v))
             ELSE [axes |-> axes, exc |-> f.exc]

(* ------------------------------ datagrams ------------------------------ *)
\* A datagram is what the code reads of it: len its length, bytes its
\* content (for a text datagram: its first byte), doc what json.loads
\* returns for its text.
\* struct.pack('<f', v) of the sender, for the values the model sends
F32Word(v) ==
    CASE v = 0 -> <<0, 0, 0, 0>>
      [] v = 1 -> <<0, 0, 128, 63>>
      [] v = 2 -> <<0, 0, 0, 64>>
      [] v = 3 -> <<0, 0, 64, 64>>
      [] v = 4 -> <<0, 0, 128, 64>>
      [] v = 6 -> <<0, 0, 192, 64>>
      [] v = 8 -> <<0, 0, 0, 65>>
      [] v = 10 -> <<0, 0, 32, 65>>
      [] v = 11 -> <<0, 0, 48, 65>>
      [] v = 0 - 2 -> <<0, 0, 0, 192>>
      [] v = NaN -> <<0, 0, 192, 127>>

BinFrame(tag, vec) ==
    [len |-> 13,
     bytes |-> <<tag>> \o F32Word(vec[1]) \o F32Word(vec[2]) \o F32Word(vec[3]),
     doc |-> JInvalid]

\* A frame cut to 12 bytes, and one with a 14th byte
ShortFrame(tag, vec) ==
    [len |-> 12, bytes |-> SubSeq(BinFrame(tag, vec).bytes, 1, 12), doc |-> JInvalid]

LongFrame(tag, vec) ==
    [len |-> 14, bytes |-> BinFrame(tag, vec).bytes \o <<0>>, doc |-> JInvalid]

TextDatagram(first, len, doc) == [len |-> len, bytes |-> <<first>>, doc |-> doc]

EmptyDatagram == [len |-> 0, bytes |-> <<>>, doc |-> JInvalid]

\* data[:1]
FirstByte(d) == IF d.len > 0 THEN d.bytes[1] ELSE 0 - 1

LBrace == 123
LBracket == 91

\* Sample vectors (x, y, z); their norms are the integers 7, 9 and 15
VA == <<2, 3, 6>>
VB == <<1, 4, 8>>
VC == <<0 - 2, 10, 11>>
\* A vector whose x is NaN
VN == <<NaN, 3, 6>>

K(sensor, axis) == sensor \o <<":">> \o axis

\* {"accel:x": vx, "accel:y": vy, "accel:z": vz}
FlatDoc(name, vec) ==
    JObj(<<KV(K(name, S_x), JNum(vec[1])), KV(K(name, S_y), JNum(vec[2])),
           KV(K(name, S_z), JNum(vec[3]))>>)

\* {"sensordata": {"accel": {"x": vx, "y": vy, "z": vz}}}
NestedMapDoc(name, vec) ==
    JObj(<<KV(S_sensordata,
              JObj(<<KV(name, JObj(<<KV(S_x, JNum(vec[1])), KV(S_y, JNum(vec[2])),
                                     KV(S_z, JNum(vec[3]))>>))>>))>>)

\* {"sensordata": {"accel": [vx, vy, vz]}}
NestedListDoc(name, vec) ==
    JObj(<<KV(S_sensordata,
              JObj(<<KV(name, JList(<<JNum(vec[1]), JNum(vec[2]), JNum(vec[3])>>))>>))>>)

\* {"acc:x": vx, "acc:y": <bad>, "acc:z": vz}
BadAxisDoc(vec, bad) ==
    JObj(<<KV(K(S_acc, S_x), JNum(vec[1])), KV(K(S_acc, S_y), bad),
           KV(K(S_acc, S_z), JNum(vec[3]))>>)

\* {" Accel : X ": vx, "ACC:Y": vy, "accelerometer:z": vz}
MixedCaseDoc(vec) ==
    JObj(<<KV(<<" ", "A", "c", "c", "e", "l", " ", ":", " ", "X", " ">>, JNum(vec[1])),
           KV(<<"A", "C", "C", ":", "Y">>, JNum(vec[2])),
           KV(K(S_accelerometer, S_z), JNum(vec[3]))>>)

\* The complete accelerometer messages, by shape
CompleteDocs(vec) ==
    <<FlatDoc(S_accel, vec), NestedListDoc(S_accel, vec), NestedMapDoc(S_accel, vec),
      MixedCaseDoc(vec)>>

\* The datagrams a sender may send
\* {"accel:x":1}: a JSON object of exactly 13 bytes
OneAxisDoc == JObj(<<KV(K(S_accel, S_x), JNum(1))>>)

Datagrams ==
    <<BinFrame(65, VA), BinFrame(97, VB), BinFrame(1, VA), BinFrame(65, VN),
      BinFrame(71, VA), BinFrame(LBrace, VA),
      ShortFrame(65, VA), LongFrame(65, VA), EmptyDatagram,
      TextDatagram(LBrace, 9, JInvalid),
      TextDatagram(LBracket, 7, JList(<<JNum(1), JNum(2), JNum(3)>>)),
      TextDatagram(49, 3, JNum(123)),
      TextDatagram(LBrace, 44, FlatDoc(S_accel, VA)),
      TextDatagram(LBrace, 36, NestedListDoc(S_accel, VB)),
      TextDatagram(LBrace, 48, NestedMapDoc(S_accel, VA)),
      TextDatagram(LBrace, 50, MixedCaseDoc(VB)),
      TextDatagram(LBrace, 30, FlatDoc(S_gyro, VA)),
      TextDatagram(LBrace, 36, BadAxisDoc(VA, JNumStr(3))),
      TextDatagram(LBrace, 36, BadAxisDoc(<<4, 0, 8>>, JBool(1))),
      TextDatagram(LBrace, 36, BadAxisDoc(VA, JStr)),
      TextDatagram(LBrace, 36, BadAxisDoc(VA, JNull)),
      TextDatagram(LBrace, 36, BadAxisDoc(VA, JList(<<>>))),
      TextDatagram(LBrace, 36, BadAxisDoc(VA, JObj(<<>>))),
      TextDatagram(LBrace, 400, BadAxisDoc(VA, JBigInt)),
      TextDatagram(LBrace, 13, OneAxisDoc)>>

\* {"accel:x": 1, "accel:y": vy, "accel:z": vz, "sensordata": {"accel": {"x": vx}}}:
\* the x axis written twice, first as 1 and then as vx
DupAxisDoc(vec) ==
    JObj(<<KV(K(S_accel, S_x), JNum(1)), KV(K(S_accel, S_y), JNum(vec[2])),
           KV(K(S_accel, S_z), JNum(vec[3])),
           KV(S_sensordata, JObj(<<KV(S_accel, JObj(<<KV(S_x, JNum(vec[1]))>>))>>))>>)

\* {"sensordata": {"accel": [ax, ay, az], "gyro": [gx, gy, gz]}}
BothSensorsDoc(acc, gyr) ==
    JObj(<<KV(S_sensordata,
              JObj(<<KV(S_accel, JList(<<JNum(acc[1]), JNum(acc[2]), JNum(acc[3])>>)),
                     KV(S_gyro, JList(<<JNum(gyr[1]), JNum(gyr[2]), JNum(gyr[3])>>))>>))>>)

\* The datagrams sent to servidor.py
S_Datagrams ==
    <<TextDatagram(LBrace, 44, FlatDoc(S_accel, VA)),
      TextDatagram(LBrace, 41, FlatDoc(S_gyro, VB)),
      TextDatagram(LBrace, 38, FlatDoc(S_acc, VA)),
      TextDatagram(LBrace, 36, NestedListDoc(S_gyro, VA)),
      TextDatagram(LBrace, 48, NestedMapDoc(S_accel, VB)),
      TextDatagram(LBrace, 83, DupAxisDoc(VA)),
      TextDatagram(LBrace, 30, BadAxisDoc(VA, JStr)),
      TextDatagram(LBrace, 400, BadAxisDoc(VA, JBigInt)),
      TextDatagram(LBrace, 9, JInvalid),
      TextDatagram(LBrace, 2, JObj(<<>>)),
      TextDatagram(LBracket, 7, JList(<<JNum(1), JNum(2), JNum(3)>>)),
      TextDatagram(49, 3, JNum(123)),
      TextDatagram(34, 5, JStr),
      TextDatagram(110, 4, JNull),
      TextDatagram(116, 4, JBool(1)),
      TextDatagram(104, 5, JInvalid),
      BinFrame(65, VA),
      EmptyDatagram,
      TextDatagram(LBrace, 55, BothSensorsDoc(VA, VB))>>

NoData == [len |-> 0 - 1, bytes |-> <<>>, doc |-> JInvalid]

(* ------------------------------ features ------------------------------- *)
Col(win, a) == [i \in 1..Len(win) |-> win[i][a]]

Sq(s) == [i \in 1..Len(s) |-> s[i] * s[i]]

\* sqrt(q); exact for the vectors of the model, whose norms are integers
ISqrt(q) == CHOOSE r \in 0..q : r * r <= q /\ (r + 1) * (r + 1) > q

\* np.sqrt(Ax**2 + Ay**2 + Az**2), per sample
Magnitudes(win) ==
    [i \in 1..Len(win) |->
        IF IsNaN(win[i].x) \/ IsNaN(win[i].y) \/ IsNaN(win[i].z) THEN NaN
        ELSE ISqrt(win[i].x * win[i].x + win[i].y * win[i].y + win[i].z * win[i].z)]

\* The values a pandas reduction looks at (skipna=True)
NotNaN(v) == ~IsNaN(v)

SkipNa(s) == SelectSeq(s, NotNaN)

\* Series.mean(): the fraction <<sum, count>> over the values that are not
\* NaN; a fraction with denominator 0 is NaN
Mean(s) == <<SumSeq(SkipNa(s)), Len(SkipNa(s))>>

\* Series.std() of pandas (ddof = 1): its square is the fraction
\* (n * sum(v^2) - sum(v)^2) / (n * (n - 1)); StdVar is <<numerator, denominator>>
StdVar(s) ==
    LET v == SkipNa(s)
    IN  <<Len(v) * SumSeq(Sq(v)) - SumSeq(v) * SumSeq(v), Len(v) * (Len(v) - 1)>>

\* ingenieriaCaracteristicas(df): F1, F2, F3, F5 as fractions; F4, the mean of
\* three square roots, as the three variances whose roots are averaged
ingenieriaCaracteristicas(win) ==
    [F1 |-> Mean(Col(win, "x")),
     F2 |-> Mean(Col(win, "y")),
     F3 |-> Mean(Col(win, "z")),
     F4 |-> <<StdVar(Col(win, "x")), StdVar(Col(win, "y")), StdVar(Col(win, "z"))>>,
     F5 |-> Mean(Magnitudes(win))]

\* round(x, 6) of the fraction num/den, in micro units
Round6(f) == IF f[2] = 0 THEN NaN ELSE (2 * f[1] * Micro + f[2]) \div (2 * f[2])

\* "F": [round(x, 6) for x in F]
RoundedF(F) ==
    [F1 |-> <<Round6(F.F1)>>, F2 |-> <<Round6(F.F2)>>, F3 |-> <<Round6(F.F3)>>,
     F4 |-> F.F4, F5 |-> <<Round6(F.F5)>>]

(* ----------------------------- classifier ------------------------------ *)
\* A probability is a record: k = "sigmoid" is 1/(1+exp(-(num/den))), the
\* logistic value of the signed distance num/den; k = "model" is the value
\* num/den the model returned; k = "None" is no probability.
NoProb == [k |-> "None", num |-> 0, den |-> 1]

\* prob = 1.0 / (1.0 + np.exp(-(F[4] - f5_threshold_default)))
SigmoidProb(F5) ==
    [k |-> "sigmoid", num |-> F5[1] * F5ThrDen - F5ThrNum * F5[2], den |-> F5[2] * F5ThrDen]

\* label = "R" if F[4] > f5_threshold_default else "L"
ThresholdLabel(F5) == IF F5[1] * F5ThrDen > F5ThrNum * F5[2] THEN "R" ELSE "L"

\* The probabilities predict_proba may return for class 1, in quarters;
\* Raises stands for predict_proba raising
ModelQuarters == {1, 2, 3}
Raises == 0 - 1
ModelOutcomes == ModelQuarters \cup {Raises}

ModelProb(q) == [k |-> "model", num |-> q, den |-> 4]

\* A label that needs a probability above 0.5
ModelLabelStrict(q) == IF 2 * q > 4 THEN "R" ELSE "L"

\* label = "R" if prob >= 0.5 else "L"
ModelLabel(q) == IF 2 * q >= 4 THEN "R" ELSE "L"

\* The threshold rule of servidor_web.py 217-218 and 221-222
Fallback(F) == [label |-> ThresholdLabel(F.F5), prob |-> SigmoidProb(F.F5)]

\* servidor_web.py 209-222: outcome is "raise" when predict_proba raises, or
\* the quarter it returns; loaded is whether joblib.load succeeded
ClassifyWeb(loaded, outcome, F) ==
    IF loaded
    THEN IF outcome = Raises THEN Fallback(F)
         ELSE [label |-> ModelLabel(outcome), prob |-> ModelProb(outcome)]
    ELSE Fallback(F)

\* A probability is a number of [0, 1]: the logistic value of a finite
\* distance is, a model value num/den is when 0 <= num <= den
ProbInUnit(p) ==
    \/ p.k = "sigmoid" /\ p.den > 0
    \/ p.k = "model" /\ p.den > 0 /\ 0 <= p.num /\ p.num <= p.den

\* The values of F[4] the classification is called with: the means of up to
\* three magnitudes up to MaxF5, and the decimals around f5_threshold_default
MaxF5 == 20

F5Inputs ==
    {<<n, d>> : n \in 0..(3 * MaxF5), d \in 1..3}
        \cup {<<F5ThrNum + k, F5ThrDen>> : k \in {0 - 1, 0, 1}}

(* ============================ servidor_web.py ========================== *)
VARIABLES
    clock,        \* time.time(), in ticks
    pc,           \* position of the udp_loop thread
    now,          \* udp_loop: now
    last_pred_t,  \* udp_loop: last_pred_t
    data,         \* udp_loop: data (NoData is None)
    window,       \* deque of (t, x, y, z)
    appended,     \* history: the datagram of this iteration gave a reading
    last_pred,    \* the shared prediction state
    stamp,        \* history: the inference cycle that wrote each field
    cycle,        \* history: number of inference cycles that published
    state_lock,   \* "free", "udp" (udp_loop holds it) or "req" (a request does)
    model,        \* whether joblib.load succeeded
    loc,          \* udp_loop: n, F, label, prob of the running cycle
    exc,          \* the exception that ended udp_loop ("none": running)
    received,     \* number of datagrams received
    rpc,          \* position of each /api/status request
    payload,      \* api_status: payload, with the stamps of what it copied
    feed,         \* the frames a scripted sender still has to send
    setbacks      \* number of times the wall clock was set back

webVars == <<clock, pc, now, last_pred_t, data, window, appended, last_pred, stamp, cycle,
             state_lock, model, loc, exc, received, rpc, payload, feed, setbacks>>

VARIABLES
    b_clock,        \* time.time(), in ticks
    b_last_pred_t,  \* main: last_pred_t
    b_window,       \* main: window
    b_model,        \* main: model is not None
    b_data,         \* the datagram of the last iteration: its index (0: none)
    b_appended,     \* history: the last iteration appended a reading
    b_raised,       \* history: predict_proba raised in the last iteration
    b_out,          \* the last prediction line printed
    b_exc,          \* the exception that ended main's loop ("none": running)
    b_received      \* number of datagrams received

basVars == <<b_clock, b_last_pred_t, b_window, b_model, b_data, b_appended, b_raised,
             b_out, b_exc, b_received>>

VARIABLES
    s_clock,        \* time.time() of servidor.py, in ticks of SAMPLE_PERIOD
    rows,           \* rows
    NEXT_SEQ,       \* NEXT_SEQ
    start_time,     \* start_time (<<>> is None)
    LAST,           \* LAST (<<>> is None)
    BUFF,           \* BUFF
    last_sample_t,  \* _last_sample_t
    SAMPLE_IDX,     \* SAMPLE_IDX
    LAST_PRED_IDX,  \* LAST_PRED_IDX
    s_data,         \* the last datagram received: its index (0: none yet)
    s_exc,          \* the exception that ended udp_loop ("none": running)
    s_received      \* number of datagrams received

srvVars == <<s_clock, rows, NEXT_SEQ, start_time, LAST, BUFF, last_sample_t, SAMPLE_IDX,
             LAST_PRED_IDX, s_data, s_exc, s_received>>

VARIABLES
    d_pkt,          \* the datagram given to decode_serialsensor_binary
    d_res           \* what it returned (NotRun before the call)

decVars == <<d_pkt, d_res>>

VARIABLES
    f_win,          \* the window a feature extractor is called with
    f_out           \* what the extractors returned (NotRun before the call)

featVars == <<f_win, f_out>>

VARIABLES
    shutdown        \* <<t>> once the owner has asked the web process to stop at t

ownerVars == <<shutdown>>

VARIABLES
    g_pc,           \* stream: position of the generator of one /stream client
    last_seq,       \* gen: last_seq
    sent            \* history: the rows the generator has sent to the client

streamVars == <<g_pc, last_seq, sent>>

VARIABLES
    variant,        \* the recorder that runs: "registros" or "registros_csv"
    STOP,           \* STOP
    ready_evt,      \* _ready_evt is set
    r_LAST,         \* LAST of the recorder (<<>> is None)
    CURRENT_TAG,    \* CURRENT_TAG
    BUFFER,         \* registros_csv.py: BUFFER
    m_pc,           \* position of main
    m_tag,          \* main: tag, frozen at the start of a block
    m_rows,         \* main: the LR column of rows, one entry per row
    m_idx,          \* main: idx
    m_blocks,       \* number of capture blocks main has started in this run
    l_pc,           \* position of udp_listener
    l_received,     \* number of datagrams udp_listener has received in this run
    i_pc,           \* position of input_monitor
    files,          \* the names in OUT_DIR
    used,           \* history: the indexes of the files this recorder has written
    runs            \* number of times the recorder has been started

recVars == <<variant, STOP, ready_evt, r_LAST, CURRENT_TAG, BUFFER, m_pc, m_tag, m_rows, m_idx,
             m_blocks, l_pc, l_received, i_pc, files, used, runs>>

VARIABLES
    u_pc,           \* servidor.py udp_loop statement by statement: its position
    u_pairs,        \* udp_loop: the pairs the for loop of 161 has not taken yet
    u_row,          \* udp_loop: row (<<>> before it is built)
    u_t,            \* udp_loop: now and t_iso
    u_trel,         \* udp_loop: t_rel
    u_axis,         \* udp_loop: how many of the appends of 197-202 are done
    x_pc,           \* position of the /reset handler ("idle": no request runs)
    x_keys,         \* reset: the keys of LAST the loop of 233 has not taken yet
    resets          \* number of /reset requests started

raceVars == <<u_pc, u_pairs, u_row, u_t, u_trel, u_axis, x_pc, x_keys, resets>>

VARIABLES
    c_F5,           \* the F[4] the classification of servidor_web.py is given
    c_loaded,       \* model is not None
    c_out           \* the label and prob it gave (NotRun before it has run)

clsVars == <<c_F5, c_loaded, c_out>>

nonWebVars == <<basVars, srvVars, decVars, featVars, ownerVars, streamVars, recVars, raceVars, clsVars>>

nonBasVars == <<webVars, srvVars, decVars, featVars, ownerVars, streamVars, recVars, raceVars, clsVars>>

nonSrvVars == <<webVars, basVars, decVars, featVars, ownerVars, streamVars, recVars, raceVars, clsVars>>

nonDecVars == <<webVars, basVars, srvVars, featVars, ownerVars, streamVars, recVars, raceVars, clsVars>>

nonFeatVars == <<webVars, basVars, srvVars, decVars, ownerVars, streamVars, recVars, raceVars, clsVars>>

nonOwnerVars == <<webVars, basVars, srvVars, decVars, featVars, streamVars, recVars, raceVars, clsVars>>

nonStreamVars == <<webVars, basVars, srvVars, decVars, featVars, ownerVars, recVars, raceVars, clsVars>>

nonRecVars == <<webVars, basVars, srvVars, decVars, featVars, ownerVars, streamVars, raceVars, clsVars>>

nonRaceVars == <<webVars, basVars, srvVars, decVars, featVars, ownerVars, streamVars, recVars, clsVars>>

\* What neither udp_loop nor the handlers of servidor.py touch
nonServidorVars == <<webVars, basVars, decVars, featVars, ownerVars, streamVars, recVars, clsVars>>

nonClsVars == <<webVars, basVars, srvVars, decVars, featVars, ownerVars, streamVars, recVars, raceVars>>

Readers == 1..NumReaders

Fields == <<"label", "prob_rapido", "F", "n", "updated_at">>

NoF == [F1 |-> <<>>, F2 |-> <<>>, F3 |-> <<>>, F4 |-> <<>>, F5 |-> <<>>]

\* last_pred as the module creates it (servidor_web.py 112-118)
InitialPred ==
    [label |-> "None", prob_rapido |-> NoProb, F |-> NoF, n |-> 0, updated_at |-> <<>>]

InitialStamp == [f \in {"label", "prob_rapido", "F", "n", "updated_at"} |-> 0]

NoLoc == [n |-> 0, F |-> NoF, label |-> "None", prob |-> NoProb]

EmptyPayload == [val |-> InitialPred, st |-> InitialStamp]

\* while window and window[0][0] < cutoff: window.popleft()
RECURSIVE EvictFront(_, _)
EvictFront(w, cutoff) ==
    IF w # <<>> /\ Head(w).t < cutoff THEN EvictFront(Tail(w), cutoff) ELSE w

\* The tuple (t, x, y, z)
Reading(t, x, y, z) == [t |-> t, x |-> x, y |-> y, z |-> z]

\* A timestamp taken when the datagram has arrived
StampAtArrival(loopNow, clockNow) == clockNow

\* The timestamp an appended reading carries: udp_loop's now (169, 192)
StampOf(loopNow, clockNow) == loopNow

\* Which branch of udp_loop takes a datagram (servidor_web.py 161-171): the
\* length test comes first, the first-byte test is its elif
PathWeb(d) ==
    IF d.len <= 0 THEN "none"
    ELSE IF d.len = MESSAGE_LENGTH THEN "binary"
    ELSE IF FirstByte(d) \in {LBrace, LBracket} THEN "text"
    ELSE "none"

\* What one received datagram does to the window (servidor_web.py 161-192):
\* the reading to append (as a sequence of 0 or 1 readings) and the
\* exception that leaves the loop.
IngestWeb(d, loopNow, clockNow) ==
    IF PathWeb(d) = "binary"
    THEN LET decoded == decode_serialsensor_binary(d)
         IN  IF decoded.t = "acc"
             THEN [add |-> <<Reading(StampOf(loopNow, clockNow), decoded.x, decoded.y,
                                     decoded.z)>>,
                   exc |-> "none"]
             ELSE [add |-> <<>>, exc |-> "none"]
    ELSE IF PathWeb(d) = "text"
    THEN IF d.doc.t = "dict"
         THEN LET r == FillAxesWeb(iter_pairs_from_json_msg(d.doc), EmptyAxes)
              IN  IF r.exc # "none" THEN [add |-> <<>>, exc |-> r.exc]
                  ELSE IF AxesComplete(r.axes)
                  THEN [add |-> <<Reading(StampOf(loopNow, clockNow), r.axes["x"],
                                          r.axes["y"], r.axes["z"])>>,
                        exc |-> "none"]
                  ELSE [add |-> <<>>, exc |-> "none"]
         ELSE [add |-> <<>>, exc |-> "none"]
    ELSE [add |-> <<>>, exc |-> "none"]

readerVars == <<rpc, payload>>

\* 209-222 of servidor_web.py on one F: only F[4] enters the threshold rule;
\* outcome is what predict_proba does when a model is loaded
C_Classify(outcome) ==
    /\ c_out = NotRun
    /\ (c_loaded => outcome \in ModelOutcomes)
    /\ (~c_loaded => outcome = Raises)
    /\ LET r == ClassifyWeb(c_loaded, outcome, [F5 |-> c_F5])
       IN  c_out' = [t |-> "Done", label |-> r.label, prob |-> r.prob]
    /\ UNCHANGED <<c_F5, c_loaded, nonClsVars>>

\* 146-152: now = time.time(); the eviction pass under state_lock
U_Top ==
    /\ pc = "top" /\ state_lock = "free" /\ clock <= MaxClock
    /\ now' = clock
    /\ window' = EvictFront(window, clock - WINDOW_SEC)
    /\ appended' = FALSE
    /\ pc' = "recv"
    /\ UNCHANGED <<clock, last_pred_t, data, last_pred, stamp, cycle, state_lock,
                   model, loc, exc, received, feed, setbacks>>
    /\ UNCHANGED <<readerVars, nonWebVars>>

\* 156: recvfrom returns datagram i after waiting w ticks
U_Recv(i, w) ==
    /\ pc = "recv" /\ received < MaxRecv /\ feed = <<>>
    /\ data' = Datagrams[i]
    /\ clock' = clock + w
    /\ received' = received + 1
    /\ pc' = "ingest"
    /\ UNCHANGED <<appended, now, last_pred_t, window, last_pred, stamp, cycle, state_lock,
                   model, loc, exc, feed, setbacks>>
    /\ UNCHANGED <<readerVars, nonWebVars>>

\* 157-159: socket.timeout after the 1.0 s of settimeout
U_Timeout ==
    /\ pc = "recv"
    /\ data' = NoData
    /\ clock' = clock + RECV_TIMEOUT
    /\ pc' = "ingest"
    /\ UNCHANGED <<appended, now, last_pred_t, window, last_pred, stamp, cycle, state_lock,
                   model, loc, exc, received, feed, setbacks>>
    /\ UNCHANGED <<readerVars, nonWebVars>>

\* 156-159, 232-238: recvfrom raises an OSError that is not socket.timeout; no
\* handler of udp_loop takes it, the finally clause closes sock and the
\* thread ends
U_RecvError ==
    /\ pc = "recv"
    /\ exc' = "OSError"
    /\ pc' = "dead"
    /\ UNCHANGED <<clock, now, last_pred_t, data, window, appended, last_pred, stamp, cycle,
                   state_lock, model, loc, received, feed, setbacks>>
    /\ UNCHANGED <<readerVars, nonWebVars>>

\* 161-192: decode and append (the append under state_lock)
U_Ingest ==
    /\ pc = "ingest"
    /\ LET r == IngestWeb(data, now, clock)
       IN  /\ (r.add # <<>> => state_lock = "free")
           /\ window' = window \o r.add
           /\ appended' = (r.add # <<>>)
           /\ exc' = r.exc
           /\ pc' = IF r.exc = "none" THEN "check" ELSE "dead"
    /\ data' = NoData
    /\ UNCHANGED <<clock, now, last_pred_t, last_pred, stamp, cycle, state_lock,
                   model, loc, received, feed, setbacks>>
    /\ UNCHANGED <<readerVars, nonWebVars>>

\* A cycle that runs on any window that is not empty
AnySamples(n) == n >= 1

\* 201: if n >= 3
EnoughSamples(n) == n >= MIN_SAMPLES

\* 195-207: the cadence test; state_lock taken, n and F computed
U_Check ==
    /\ pc = "check"
    /\ IF now - last_pred_t >= STEP_SEC
       THEN /\ state_lock = "free"
            /\ last_pred_t' = now
            /\ IF EnoughSamples(Len(window))
               THEN /\ loc' = [NoLoc EXCEPT !.n = Len(window),
                                            !.F = ingenieriaCaracteristicas(window)]
                    /\ state_lock' = "udp"
                    /\ pc' = "infer"
               ELSE /\ pc' = "top"
                    /\ UNCHANGED <<loc, state_lock>>
       ELSE /\ pc' = "top"
            /\ UNCHANGED <<last_pred_t, loc, state_lock>>
    /\ UNCHANGED <<clock, now, data, window, appended, last_pred, stamp, cycle, model,
                   exc, received, feed, setbacks>>
    /\ UNCHANGED <<readerVars, nonWebVars>>

\* 209-222: the model or the threshold rule
U_Infer(outcome) ==
    /\ pc = "infer"
    /\ (model => outcome \in ModelOutcomes)
    /\ (~model => outcome = Raises)
    /\ LET c == ClassifyWeb(model, outcome, loc.F)
       IN  loc' = [loc EXCEPT !.label = c.label, !.prob = c.prob]
    /\ cycle' = cycle + 1
    /\ pc' = "pub1"
    /\ UNCHANGED <<appended, clock, now, last_pred_t, data, window, last_pred, stamp, state_lock,
                   model, exc, received, feed, setbacks>>
    /\ UNCHANGED <<readerVars, nonWebVars>>

PubPc == <<"pub1", "pub2", "pub3", "pub4", "pub5">>

\* The value last_pred.update gives field f (225-231)
NewValue(f) ==
    CASE f = "label" -> loc.label
      [] f = "prob_rapido" -> loc.prob
      [] f = "F" -> RoundedF(loc.F)
      [] f = "n" -> loc.n
      [] f = "updated_at" -> <<clock>>

\* 225-231: last_pred.update writes field k; state_lock released after the last
U_Publish(k) ==
    /\ pc = PubPc[k]
    /\ last_pred' = [last_pred EXCEPT ![Fields[k]] = NewValue(Fields[k])]
    /\ stamp' = [stamp EXCEPT ![Fields[k]] = cycle]
    /\ IF k = Len(Fields)
       THEN pc' = "top" /\ state_lock' = "free" /\ loc' = NoLoc
       ELSE pc' = PubPc[k + 1] /\ UNCHANGED <<state_lock, loc>>
    /\ UNCHANGED <<appended, clock, now, last_pred_t, data, window, cycle, model, exc, received,
                   feed, setbacks>>
    /\ UNCHANGED <<readerVars, nonWebVars>>

\* dict(last_pred) copied without state_lock
ApiStatusNoLock(l) == TRUE

\* 389: with state_lock, as api_status sees the lock
ApiStatusMayEnter(l) == l = "free"

\* 386-389: a /api/status request takes state_lock
R_Begin(r) ==
    /\ rpc[r] = 0
    /\ ApiStatusMayEnter(state_lock)
    /\ state_lock' = "req"
    /\ rpc' = [rpc EXCEPT ![r] = 1]
    /\ UNCHANGED <<appended, clock, pc, now, last_pred_t, data, window, last_pred, stamp, cycle,
                   model, loc, exc, received, payload, feed, setbacks>>
    /\ UNCHANGED nonWebVars

\* 390: payload = dict(last_pred) copies field rpc[r]; the lock is released
\* after the last field
R_Copy(r) ==
    /\ rpc[r] \in 1..Len(Fields)
    /\ LET f == Fields[rpc[r]]
       IN  payload' = [payload EXCEPT ![r].val[f] = last_pred[f], ![r].st[f] = stamp[f]]
    /\ rpc' = [rpc EXCEPT ![r] = rpc[r] + 1]
    /\ state_lock' = IF rpc[r] = Len(Fields) THEN "free" ELSE state_lock
    /\ UNCHANGED <<appended, clock, pc, now, last_pred_t, data, window, last_pred, stamp, cycle,
                   model, loc, exc, received, feed, setbacks>>
    /\ UNCHANGED nonWebVars

\* 392: return jsonify(payload); the request ends
R_Respond(r) ==
    /\ rpc[r] = Len(Fields) + 1
    /\ rpc' = [rpc EXCEPT ![r] = 0]
    /\ payload' = [payload EXCEPT ![r] = EmptyPayload]
    /\ UNCHANGED <<appended, clock, pc, now, last_pred_t, data, window, last_pred, stamp, cycle,
                   state_lock, model, loc, exc, received, feed, setbacks>>
    /\ UNCHANGED nonWebVars

\* The system clock is set back by d ticks (time.time() is the wall clock)
ClockSetBack(d) ==
    /\ pc = "top" /\ setbacks < MaxSetBacks
    /\ clock' = clock - d
    /\ setbacks' = setbacks + 1
    /\ UNCHANGED <<appended, pc, now, last_pred_t, data, window, last_pred, stamp, cycle,
                   state_lock, model, loc, exc, received, feed>>
    /\ UNCHANGED <<readerVars, nonWebVars>>

\* 156: recvfrom returns the next frame of the scripted sender: the first
\* after any wait shorter than the timeout, each later one within the same
\* tick as the frame before it (10 ms later)
U_RecvFeed(w) ==
    /\ pc = "recv" /\ feed # <<>>
    /\ (received > 0 => w = 0)
    /\ data' = Head(feed)
    /\ feed' = Tail(feed)
    /\ clock' = clock + w
    /\ received' = received + 1
    /\ pc' = "ingest"
    /\ UNCHANGED <<appended, now, last_pred_t, window, last_pred, stamp, cycle, state_lock,
                   model, loc, exc, setbacks>>
    /\ UNCHANGED <<readerVars, nonWebVars>>

\* 401: app.run returns (the owner pressed Ctrl-C): the process is asked to stop.
\* udp_loop reads no flag (144: while True), so nothing of it changes
M_Shutdown ==
    /\ shutdown = <<>> /\ pc # "killed"
    /\ shutdown' = <<clock>>
    /\ UNCHANGED nonOwnerVars

\* 397, 401: the script ends after app.run; the interpreter exits and stops the
\* daemon thread wherever it is, without running its finally clause
M_Exit ==
    /\ shutdown # <<>> /\ pc \notin {"dead", "killed"}
    /\ pc' = "killed"
    /\ UNCHANGED <<clock, now, last_pred_t, data, window, appended, last_pred, stamp, cycle,
                   state_lock, model, loc, exc, received, feed, setbacks>>
    /\ UNCHANGED <<readerVars, nonWebVars>>

\* 232-238: the finally clause has run: udp_loop left its loop and closed sock
SocketClosed == pc = "dead"

InitOwner == shutdown = <<>>

InitWebCommon ==
    /\ clock = STEP_SEC
    /\ pc = "top"
    /\ now = 0
    /\ last_pred_t = 0
    /\ data = NoData
    /\ window = <<>>
    /\ appended = FALSE
    /\ last_pred = InitialPred
    /\ stamp = InitialStamp
    /\ cycle = 0
    /\ state_lock = "free"
    /\ model \in BOOLEAN
    /\ loc = NoLoc
    /\ exc = "none"
    /\ received = 0
    /\ rpc = [r \in Readers |-> 0]
    /\ payload = [r \in Readers |-> EmptyPayload]
    /\ setbacks = 0

\* How long recvfrom waits for a datagram: it is there already, or it comes
\* half a second later
Waits == {0, STEP_SEC}

UdpLoop ==
    \/ U_Top
    \/ \E i \in 1..Len(Datagrams), w \in Waits : U_Recv(i, w)
    \/ U_Timeout
    \/ U_Ingest
    \/ U_Check
    \/ \E o \in ModelOutcomes : U_Infer(o)
    \/ \E k \in 1..Len(Fields) : U_Publish(k)

(* =========================== servidor_basico.py ======================== *)
NoOut == [pred |-> "None", prob |-> NoProb, n |-> 0]

\* What main decodes from one datagram (servidor_basico.py 139-164): the
\* axes of the reading to append, as a sequence of 0 or 1 vectors, and the
\* exception that leaves the loop
DecodeBasico(d) ==
    IF d.len <= 0 THEN [vec |-> <<>>, exc |-> "none"]
    ELSE IF d.len = MESSAGE_LENGTH
    THEN LET decoded == decode_serialsensor_binary(d)
         IN  IF decoded.t = "acc"
             THEN [vec |-> <<<<decoded.x, decoded.y, decoded.z>>>>, exc |-> "none"]
             ELSE [vec |-> <<>>, exc |-> "none"]
    ELSE IF FirstByte(d) \in {LBrace, LBracket}
    THEN IF d.doc.t = "dict"
         THEN LET r == FillAxesBasico(iter_pairs_from_json_msg_basico(d.doc), EmptyAxes)
              IN  IF r.exc # "none" THEN [vec |-> <<>>, exc |-> r.exc]
                  ELSE IF AxesComplete(r.axes)
                  THEN [vec |-> <<<<r.axes["x"], r.axes["y"], r.axes["z"]>>>>,
                        exc |-> "none"]
                  ELSE [vec |-> <<>>, exc |-> "none"]
         ELSE [vec |-> <<>>, exc |-> "none"]
    ELSE [vec |-> <<>>, exc |-> "none"]

\* DecodeBasico of each datagram of the model, and of no datagram (index 0)
DecodedBasico ==
    [i \in 0..Len(Datagrams) |->
        IF i = 0 THEN [vec |-> <<>>, exc |-> "none"] ELSE DecodeBasico(Datagrams[i])]

\* window.append((now, x, y, z)) for what was decoded (146, 164)
AppendBasico(win, dec, loopNow) ==
    IF dec.vec = <<>> THEN win
    ELSE win \o <<Reading(loopNow, dec.vec[1][1], dec.vec[1][2], dec.vec[1][3])>>

\* servidor_basico.py 177-186: the model with no handler around it, or the
\* threshold rule when no model was loaded
ClassifyBasico(loaded, outcome, F) ==
    IF loaded
    THEN IF outcome = Raises
         THEN [exc |-> "PredictError", pred |-> "None", prob |-> NoProb]
         ELSE [exc |-> "none", pred |-> ModelLabel(outcome), prob |-> ModelProb(outcome)]
    ELSE [exc |-> "none", pred |-> ThresholdLabel(F.F5), prob |-> SigmoidProb(F.F5)]

\* 167: the cadence test of main
PredictsBasico(loopNow, lastT, win) == loopNow - lastT >= STEP_SEC /\ Len(win) > 3

\* One iteration of main's loop (123-192): recvfrom returned datagram i
\* after dt ticks (i = 0: it timed out), and predict_proba, when it is called,
\* does outcome
B_Loop(i, dt) ==
    /\ b_exc = "none" /\ b_clock <= MaxClock
    /\ LET loopNow == b_clock
           r       == DecodedBasico[i]
           w2      == AppendBasico(EvictFront(b_window, loopNow - WINDOW_SEC), r, loopNow)
           due     == r.exc = "none" /\ PredictsBasico(loopNow, b_last_pred_t, w2)
       IN  /\ b_clock' = b_clock + dt
           /\ b_data' = i
           /\ b_window' = w2
           /\ b_appended' = (r.vec # <<>>)
           /\ b_last_pred_t' = IF due THEN loopNow ELSE b_last_pred_t
           /\ IF due
              THEN \E outcome \in ModelOutcomes :
                     LET c == ClassifyBasico(b_model, outcome,
                                             ingenieriaCaracteristicas(w2))
                     IN  /\ (~b_model => outcome = Raises)
                         /\ b_raised' = (c.exc # "none")
                         /\ b_exc' = c.exc
                         /\ b_out' = IF c.exc = "none"
                                     THEN [pred |-> c.pred, prob |-> c.prob, n |-> Len(w2)]
                                     ELSE b_out
              ELSE /\ b_raised' = FALSE
                   /\ b_exc' = r.exc
                   /\ b_out' = b_out
    /\ UNCHANGED <<b_model, nonBasVars>>

\* recvfrom returns datagram i after waiting w ticks
B_Recv(i, w) ==
    /\ b_received < MaxRecvBasico
    /\ b_received' = b_received + 1
    /\ B_Loop(i, w)

\* recvfrom times out
B_Timeout ==
    /\ UNCHANGED b_received
    /\ B_Loop(0, RECV_TIMEOUT)

InitBasico ==
    /\ b_clock = STEP_SEC
    /\ b_last_pred_t = 0
    /\ b_window = <<>>
    /\ b_model \in BOOLEAN
    /\ b_data = 0
    /\ b_appended = FALSE
    /\ b_raised = FALSE
    /\ b_out = NoOut
    /\ b_exc = "none"
    /\ b_received = 0

\* The state of a program that is not running
IdleBasico == InitBasico /\ b_model = FALSE

IdleWeb == InitWebCommon /\ feed = <<>> /\ model = FALSE

NextBasico ==
    \/ \E i \in 1..Len(Datagrams), w \in Waits : B_Recv(i, w)
    \/ B_Timeout

(* ============================== servidor.py ============================ *)
WINDOW == 128
PRED_EVERY == 10
MAX_ROWS_MEMORY == 5000
SAMPLE_PERIOD == 1

AxisKeys == {"acc_x", "acc_y", "acc_z", "gyro_x", "gyro_y", "gyro_z"}

S_unknown == <<"u", "n", "k", "n", "o", "w", "n">>
S_pred == <<"p", "r", "e", "d">>

Pair(key, v) == [key |-> key, val |-> v]

\* 104-107: the pair a flat "sensor:field" key yields
FlatPairs(item) ==
    IF ~HasColon(item.k) THEN <<>>
    ELSE LET sf == Split1(item.k)
         IN  <<Pair(Lower(Strip(sf[1])) \o <<":">> \o Lower(Strip(sf[2])), item.v)>>

RECURSIVE FlatPairsAll(_)
FlatPairsAll(items) ==
    IF items = <<>> THEN <<>> ELSE FlatPairs(Head(items)) \o FlatPairsAll(Tail(items))

\* 115-116: for field, val in payload.items()
RECURSIVE FieldPairs(_, _)
FieldPairs(sname, items) ==
    IF items = <<>> THEN <<>>
    ELSE <<Pair(sname \o <<":">> \o Lower(Head(items).k), Head(items).v)>>
         \o FieldPairs(sname, Tail(items))

\* 112-120: one sensor of "sensordata"
SensorPairs(item) ==
    LET sname == Lower(item.k)
    IN  IF item.v.t = "dict" THEN FieldPairs(sname, item.v.items)
        ELSE IF item.v.t = "list" /\ Len(item.v.items) >= 3
        THEN <<Pair(K(sname, S_x), item.v.items[1].v),
               Pair(K(sname, S_y), item.v.items[2].v),
               Pair(K(sname, S_z), item.v.items[3].v)>>
        ELSE <<>>

RECURSIVE SensorPairsAll(_)
SensorPairsAll(items) ==
    IF items = <<>> THEN <<>> ELSE SensorPairs(Head(items)) \o SensorPairsAll(Tail(items))

\* key in sd
HasKey(items, key) == \E i \in 1..Len(items) : items[i].k = key

\* 123-129: loose x, y, z members of "sensordata"
LoosePairs(items) ==
    IF ~(HasKey(items, S_x) \/ HasKey(items, S_y) \/ HasKey(items, S_z)) THEN <<>>
    ELSE LET base == IF HasKey(items, S_gyro) THEN S_gyro
                     ELSE IF HasKey(items, S_accel) THEN S_accel ELSE S_unknown
             one(a) == IF HasKey(items, a) THEN <<Pair(K(base, a), DictGet(items, a))>>
                       ELSE <<>>
         IN  one(S_x) \o one(S_y) \o one(S_z)

\* iter_pairs_from_msg(msg) of servidor.py, msg a dict
iter_pairs_from_msg(msg) ==
    LET sd == DictGet(msg.items, S_sensordata)
    IN  FlatPairsAll(msg.items)
        \o (IF sd.t = "dict" THEN SensorPairsAll(sd.items) \o LoosePairs(sd.items) ELSE <<>>)

\* 140-148: what udp_loop gets from one datagram: drop is the continue of
\* 144 and 148, exc the exception list(iter_pairs_from_msg(msg)) raises when
\* msg has no items()
ParseServidor(d) ==
    IF d.doc.t = "invalid" THEN [drop |-> TRUE, exc |-> "none", pairs |-> <<>>]
    ELSE IF d.doc.t # "dict" THEN [drop |-> FALSE, exc |-> "AttributeError", pairs |-> <<>>]
    ELSE LET ps == iter_pairs_from_msg(d.doc)
         IN  [drop |-> ps = <<>>, exc |-> "none", pairs |-> ps]

\* 183-188: the LAST entry a key updates ("" when none)
LastKeyOf(key) ==
    CASE key = K(S_accel, S_x) -> "acc_x"
      [] key = K(S_accel, S_y) -> "acc_y"
      [] key = K(S_accel, S_z) -> "acc_z"
      [] key = K(S_gyro, S_x) -> "gyro_x"
      [] key = K(S_gyro, S_y) -> "gyro_y"
      [] key = K(S_gyro, S_z) -> "gyro_z"
      [] OTHER -> ""

\* rows.append(row) on a deque(maxlen=MAX_ROWS_MEMORY)
AppendRow(rs, row) ==
    IF Len(rs) >= MAX_ROWS_MEMORY THEN Tail(rs) \o <<row>> ELSE rs \o <<row>>

\* dq.append(v) on a deque(maxlen=WINDOW)
AppendBuff(dq, v) == IF Len(dq) >= WINDOW THEN Tail(dq) \o <<v>> ELSE dq \o <<v>>

\* A store that keeps the first value an axis was given
StoreLastFirstWins(last, lk, v) == IF last[lk] # <<>> THEN last ELSE [last EXCEPT ![lk] = <<v>>]

\* 183-188: LAST["acc_x"] = valor, for the entry lk
StoreLast(last, lk, v) == [last EXCEPT ![lk] = <<v>>]

\* 161-188: the loop over the pairs; st is [rows, seq, last, exc]
RECURSIVE PairLoop(_, _, _, _)
PairLoop(pairs, st, tIso, tRel) ==
    IF pairs = <<>> THEN st
    ELSE LET f == PyFloat(Head(pairs).val)
         IN  IF f.exc \in {"TypeError", "ValueError"} THEN PairLoop(Tail(pairs), st, tIso, tRel)
             ELSE IF f.exc # "none" THEN [st EXCEPT !.exc = f.exc]
             ELSE LET row == [timestamp_iso |-> tIso, t_rel_s |-> tRel,
                              sensor |-> Head(pairs).key, valor |-> f.v, seq |-> st.seq]
                      lk  == LastKeyOf(Head(pairs).key)
                  IN  PairLoop(Tail(pairs),
                               [rows |-> AppendRow(st.rows, row),
                                seq  |-> st.seq + 1,
                                last |-> IF lk = "" THEN st.last
                                         ELSE StoreLast(st.last, lk, f.v),
                                exc  |-> "none"],
                               tIso, tRel)

\* ParseServidor of each datagram of the model
ParsedServidor == [i \in 1..Len(S_Datagrams) |-> ParseServidor(S_Datagrams[i])]

\* One iteration of udp_loop (139-211): recvfrom returned datagram i after
\* w ticks; outcome is what MODEL.predict_proba does when it is called
S_DatagramWithin(limit, i, w, outcome) ==
    /\ s_exc = "none" /\ s_received < limit
    /\ s_received' = s_received + 1
    /\ s_clock' = s_clock + w
    /\ s_data' = i
    /\ LET p == ParsedServidor[i]
           t == s_clock + w
       IN  IF p.exc # "none"
           THEN /\ s_exc' = p.exc
                /\ UNCHANGED <<rows, NEXT_SEQ, start_time, LAST, BUFF, last_sample_t,
                               SAMPLE_IDX, LAST_PRED_IDX>>
                /\ outcome = Raises
           ELSE IF p.drop
           THEN /\ UNCHANGED <<rows, NEXT_SEQ, start_time, LAST, BUFF, last_sample_t,
                               SAMPLE_IDX, LAST_PRED_IDX, s_exc>>
                /\ outcome = Raises
           ELSE LET st0   == IF start_time = <<>> THEN t ELSE start_time[1]
                    st    == PairLoop(p.pairs,
                                      [rows |-> rows, seq |-> NEXT_SEQ, last |-> LAST,
                                       exc |-> "none"], t, t - st0)
                    ready == \A a \in AxisKeys : st.last[a] # <<>>
                    take  == st.exc = "none" /\ ready /\ t - last_sample_t >= SAMPLE_PERIOD
                    buff2 == [a \in AxisKeys |-> AppendBuff(BUFF[a], st.last[a][1])]
                    pred  == /\ take
                             /\ \A a \in AxisKeys : Len(buff2[a]) >= WINDOW
                             /\ (SAMPLE_IDX + 1) - LAST_PRED_IDX >= PRED_EVERY
                    prow  == [timestamp_iso |-> t, t_rel_s |-> t - st0,
                              sensor |-> S_pred, valor |-> outcome, seq |-> st.seq]
                IN  /\ start_time' = <<st0>>
                    /\ LAST' = st.last
                    /\ BUFF' = IF take THEN buff2 ELSE BUFF
                    /\ last_sample_t' = IF take THEN t ELSE last_sample_t
                    /\ SAMPLE_IDX' = IF take THEN SAMPLE_IDX + 1 ELSE SAMPLE_IDX
                    /\ (pred => outcome \in ModelOutcomes)
                    /\ (~pred => outcome = Raises)
                    /\ IF pred /\ outcome # Raises
                       THEN /\ rows' = AppendRow(st.rows, prow)
                            /\ NEXT_SEQ' = st.seq + 1
                            /\ LAST_PRED_IDX' = SAMPLE_IDX + 1
                            /\ s_exc' = "none"
                       ELSE /\ rows' = st.rows
                            /\ NEXT_SEQ' = st.seq
                            /\ LAST_PRED_IDX' = LAST_PRED_IDX
                            /\ s_exc' = IF pred THEN "PredictError" ELSE st.exc
    /\ UNCHANGED nonSrvVars

S_Datagram(i, w, outcome) == S_DatagramWithin(MaxRecvServidor, i, w, outcome)

\* 228-238: /reset
S_Reset ==
    /\ s_exc = "none"
    /\ rows' = <<>>
    /\ BUFF' = [a \in AxisKeys |-> <<>>]
    /\ LAST' = [a \in AxisKeys |-> <<>>]
    /\ start_time' = <<>>
    /\ last_sample_t' = 0
    /\ NEXT_SEQ' = 0
    /\ UNCHANGED <<s_clock, SAMPLE_IDX, LAST_PRED_IDX, s_data, s_received, s_exc>>
    /\ UNCHANGED nonSrvVars

\* 221: [r for r in snapshot if r.get("seq", -1) > last_seq]
NewRows(snapshot, cursor) == SelectSeq(snapshot, LAMBDA r : r.seq > cursor)

\* 219-224: one poll of gen(): the rows after the cursor are sent and the
\* cursor moves to the seq of the last of them
G_Poll ==
    /\ g_pc = "poll"
    /\ LET new_rows == NewRows(rows, last_seq)
       IN  IF new_rows # <<>>
           THEN /\ last_seq' = new_rows[Len(new_rows)].seq
                /\ sent' = sent \o new_rows
           ELSE UNCHANGED <<last_seq, sent>>
    /\ g_pc' = "sleep"
    /\ UNCHANGED nonStreamVars

\* 225: time.sleep(STREAM_INTERVAL_SEC) returns
G_Sleep ==
    /\ g_pc = "sleep"
    /\ g_pc' = "poll"
    /\ UNCHANGED <<last_seq, sent, nonStreamVars>>

\* 217: last_seq = -1, for a client that connects before any datagram
InitStream == g_pc = "poll" /\ last_seq = 0 - 1 /\ sent = <<>>

\* udp_loop waits in recvfrom (139) and no /reset request runs
InitRace ==
    /\ u_pc = "recv"
    /\ u_pairs = <<>>
    /\ u_row = <<>>
    /\ u_t = 0
    /\ u_trel = 0
    /\ u_axis = 0
    /\ x_pc = "idle"
    /\ x_keys = <<>>
    /\ resets = 0

InitServidor ==
    /\ s_clock = SAMPLE_PERIOD
    /\ rows = <<>>
    /\ NEXT_SEQ = 0
    /\ start_time = <<>>
    /\ LAST = [a \in AxisKeys |-> <<>>]
    /\ BUFF = [a \in AxisKeys |-> <<>>]
    /\ last_sample_t = 0
    /\ SAMPLE_IDX = 0
    /\ LAST_PRED_IDX = 0 - 1
    /\ s_data = 0
    /\ s_exc = "none"
    /\ s_received = 0
    /\ InitRace

NextServidor ==
    \E i \in 1..Len(S_Datagrams), w \in {0, SAMPLE_PERIOD}, o \in ModelOutcomes :
        S_Datagram(i, w, o)

(* ------------- servidor.py, udp_loop and /reset by statement ----------- *)
\* udp_loop runs in its own thread (357) and Flask serves each request in a
\* thread of its own (360: threaded=True): no lock of servidor.py covers rows,
\* NEXT_SEQ, LAST or BUFF, so the statements of udp_loop and of reset()
\* interleave.
MaxRecvRace == 2
MaxResets == 1

\* The keys of LAST and BUFF in the order of 35-36, 41-42 and 197-202
AxisOrder == <<"acc_x", "acc_y", "acc_z", "gyro_x", "gyro_y", "gyro_z">>

\* None stored in a buffer of BUFF: an integer no value of the model reaches
NoneVal == 0 - 999999999

\* 139-158: recvfrom returns datagram i after w ticks; json.loads,
\* iter_pairs_from_msg, now, start_time, t_rel and t_iso
UL_Recv(i, w) ==
    /\ u_pc = "recv" /\ s_exc = "none" /\ s_received < MaxRecvRace
    /\ s_received' = s_received + 1
    /\ s_clock' = s_clock + w
    /\ s_data' = i
    /\ LET p == ParsedServidor[i]
           t == s_clock + w
       IN  IF p.exc # "none"
           THEN /\ s_exc' = p.exc
                /\ UNCHANGED <<start_time, u_pc, u_pairs, u_t, u_trel>>
           ELSE IF p.drop
           THEN UNCHANGED <<s_exc, start_time, u_pc, u_pairs, u_t, u_trel>>
           ELSE LET st0 == IF start_time = <<>> THEN t ELSE start_time[1]
                IN  /\ start_time' = <<st0>>
                    /\ u_t' = t
                    /\ u_trel' = t - st0
                    /\ u_pairs' = p.pairs
                    /\ u_pc' = "pair"
                    /\ UNCHANGED s_exc
    /\ UNCHANGED <<rows, NEXT_SEQ, LAST, BUFF, last_sample_t, SAMPLE_IDX, LAST_PRED_IDX>>
    /\ UNCHANGED <<u_row, u_axis, x_pc, x_keys, resets>>
    /\ UNCHANGED nonServidorVars

\* 161-178: the next pair of the for loop: float(val) and the row, which
\* reads NEXT_SEQ
UL_Pair ==
    /\ u_pc = "pair" /\ u_pairs # <<>>
    /\ LET f == PyFloat(Head(u_pairs).val)
       IN  IF f.exc \in {"TypeError", "ValueError"}
           THEN /\ u_pairs' = Tail(u_pairs)
                /\ UNCHANGED <<u_pc, u_row, s_exc>>
           ELSE IF f.exc # "none"
           THEN /\ s_exc' = f.exc
                /\ u_pc' = "dead"
                /\ UNCHANGED <<u_pairs, u_row>>
           ELSE /\ u_row' = [timestamp_iso |-> u_t, t_rel_s |-> u_trel,
                             sensor |-> Head(u_pairs).key, valor |-> f.v,
                             seq |-> NEXT_SEQ]
                /\ u_pc' = "inc"
                /\ UNCHANGED <<u_pairs, s_exc>>
    /\ UNCHANGED <<s_clock, rows, NEXT_SEQ, start_time, LAST, BUFF, last_sample_t,
                   SAMPLE_IDX, LAST_PRED_IDX, s_data, s_received>>
    /\ UNCHANGED <<u_t, u_trel, u_axis, x_pc, x_keys, resets>>
    /\ UNCHANGED nonServidorVars

\* 179: NEXT_SEQ += 1
UL_Inc ==
    /\ u_pc = "inc"
    /\ NEXT_SEQ' = NEXT_SEQ + 1
    /\ u_pc' = "append"
    /\ UNCHANGED <<s_clock, rows, start_time, LAST, BUFF, last_sample_t, SAMPLE_IDX,
                   LAST_PRED_IDX, s_data, s_exc, s_received>>
    /\ UNCHANGED <<u_pairs, u_row, u_t, u_trel, u_axis, x_pc, x_keys, resets>>
    /\ UNCHANGED nonServidorVars

\* 180: rows.append(row)
UL_Append ==
    /\ u_pc = "append"
    /\ rows' = AppendRow(rows, u_row)
    /\ u_pc' = "last"
    /\ UNCHANGED <<s_clock, NEXT_SEQ, start_time, LAST, BUFF, last_sample_t, SAMPLE_IDX,
                   LAST_PRED_IDX, s_data, s_exc, s_received>>
    /\ UNCHANGED <<u_pairs, u_row, u_t, u_trel, u_axis, x_pc, x_keys, resets>>
    /\ UNCHANGED nonServidorVars

\* 183-188: LAST[...] = valor, and the for loop goes on
UL_Last ==
    /\ u_pc = "last"
    /\ LET lk == LastKeyOf(Head(u_pairs).key)
       IN  LAST' = IF lk = "" THEN LAST ELSE StoreLast(LAST, lk, u_row.valor)
    /\ u_pairs' = Tail(u_pairs)
    /\ u_pc' = "pair"
    /\ UNCHANGED <<s_clock, rows, NEXT_SEQ, start_time, BUFF, last_sample_t, SAMPLE_IDX,
                   LAST_PRED_IDX, s_data, s_exc, s_received>>
    /\ UNCHANGED <<u_row, u_t, u_trel, u_axis, x_pc, x_keys, resets>>
    /\ UNCHANGED nonServidorVars

\* 191-195: ready, now2 and the test of the sampling period
UL_Ready ==
    /\ u_pc = "pair" /\ u_pairs = <<>>
    /\ LET ready == \A a \in AxisKeys : LAST[a] # <<>>
       IN  IF ready /\ u_t - last_sample_t >= SAMPLE_PERIOD
           THEN u_pc' = "push" /\ u_axis' = 0
           ELSE u_pc' = "recv" /\ UNCHANGED u_axis
    /\ UNCHANGED srvVars
    /\ UNCHANGED <<u_pairs, u_row, u_t, u_trel, x_pc, x_keys, resets>>
    /\ UNCHANGED nonServidorVars

\* What BUFF[k].append(LAST[k]) appends
SampleOf(last, k) == IF last[k] = <<>> THEN NoneVal ELSE last[k][1]

\* 197-202: one of the six BUFF[k].append(LAST[k]); each reads LAST again
UL_Push ==
    /\ u_pc = "push"
    /\ LET k == AxisOrder[u_axis + 1]
       IN  BUFF' = [BUFF EXCEPT ![k] = AppendBuff(BUFF[k], SampleOf(LAST, k))]
    /\ u_axis' = u_axis + 1
    /\ u_pc' = IF u_axis + 1 = Len(AxisOrder) THEN "sample" ELSE "push"
    /\ UNCHANGED <<s_clock, rows, NEXT_SEQ, start_time, LAST, last_sample_t, SAMPLE_IDX,
                   LAST_PRED_IDX, s_data, s_exc, s_received>>
    /\ UNCHANGED <<u_pairs, u_row, u_t, u_trel, x_pc, x_keys, resets>>
    /\ UNCHANGED nonServidorVars

\* 203-211: _last_sample_t, SAMPLE_IDX and the prediction row; outcome is what
\* MODEL.predict_proba does when it is called
UL_Sample(outcome) ==
    /\ u_pc = "sample"
    /\ last_sample_t' = u_t
    /\ SAMPLE_IDX' = SAMPLE_IDX + 1
    /\ LET pred == /\ \A a \in AxisKeys : Len(BUFF[a]) >= WINDOW
                   /\ (SAMPLE_IDX + 1) - LAST_PRED_IDX >= PRED_EVERY
           prow == [timestamp_iso |-> u_t, t_rel_s |-> u_trel, sensor |-> S_pred,
                    valor |-> outcome, seq |-> NEXT_SEQ]
       IN  /\ (pred => outcome \in ModelOutcomes)
           /\ (~pred => outcome = Raises)
           /\ IF pred /\ outcome # Raises
              THEN /\ rows' = AppendRow(rows, prow)
                   /\ NEXT_SEQ' = NEXT_SEQ + 1
                   /\ LAST_PRED_IDX' = SAMPLE_IDX + 1
                   /\ u_pc' = "recv"
                   /\ UNCHANGED s_exc
              ELSE /\ s_exc' = IF pred THEN "PredictError" ELSE s_exc
                   /\ u_pc' = IF pred THEN "dead" ELSE "recv"
                   /\ UNCHANGED <<rows, NEXT_SEQ, LAST_PRED_IDX>>
    /\ UNCHANGED <<s_clock, start_time, LAST, BUFF, s_data, s_received>>
    /\ UNCHANGED <<u_pairs, u_row, u_t, u_trel, u_axis, x_pc, x_keys, resets>>
    /\ UNCHANGED nonServidorVars

\* 231: a /reset request starts: rows.clear()
RS_Rows ==
    /\ x_pc = "idle" /\ resets < MaxResets
    /\ resets' = resets + 1
    /\ rows' = <<>>
    /\ x_pc' = "buff"
    /\ UNCHANGED <<s_clock, NEXT_SEQ, start_time, LAST, BUFF, last_sample_t, SAMPLE_IDX,
                   LAST_PRED_IDX, s_data, s_exc, s_received>>
    /\ UNCHANGED <<u_pc, u_pairs, u_row, u_t, u_trel, u_axis, x_keys>>
    /\ UNCHANGED nonServidorVars

\* 232: for dq in BUFF.values(): dq.clear()
RS_Buff ==
    /\ x_pc = "buff"
    /\ BUFF' = [a \in AxisKeys |-> <<>>]
    /\ x_keys' = AxisOrder
    /\ x_pc' = "last"
    /\ UNCHANGED <<s_clock, rows, NEXT_SEQ, start_time, LAST, last_sample_t, SAMPLE_IDX,
                   LAST_PRED_IDX, s_data, s_exc, s_received>>
    /\ UNCHANGED <<u_pc, u_pairs, u_row, u_t, u_trel, u_axis, resets>>
    /\ UNCHANGED nonServidorVars

\* 233: for k in LAST: LAST[k] = None, one key
RS_Last ==
    /\ x_pc = "last"
    /\ LAST' = [LAST EXCEPT ![Head(x_keys)] = <<>>]
    /\ x_keys' = Tail(x_keys)
    /\ x_pc' = IF Tail(x_keys) = <<>> THEN "times" ELSE "last"
    /\ UNCHANGED <<s_clock, rows, NEXT_SEQ, start_time, BUFF, last_sample_t, SAMPLE_IDX,
                   LAST_PRED_IDX, s_data, s_exc, s_received>>
    /\ UNCHANGED <<u_pc, u_pairs, u_row, u_t, u_trel, u_axis, resets>>
    /\ UNCHANGED nonServidorVars

\* 234-236: start_time = None, _last_sample_t = 0.0
RS_Times ==
    /\ x_pc = "times"
    /\ start_time' = <<>>
    /\ last_sample_t' = 0
    /\ x_pc' = "seq"
    /\ UNCHANGED <<s_clock, rows, NEXT_SEQ, LAST, BUFF, SAMPLE_IDX, LAST_PRED_IDX, s_data,
                   s_exc, s_received>>
    /\ UNCHANGED <<u_pc, u_pairs, u_row, u_t, u_trel, u_axis, x_keys, resets>>
    /\ UNCHANGED nonServidorVars

\* 237-238: NEXT_SEQ = 0 and the response
RS_Seq ==
    /\ x_pc = "seq"
    /\ NEXT_SEQ' = 0
    /\ x_pc' = "idle"
    /\ UNCHANGED <<s_clock, rows, start_time, LAST, BUFF, last_sample_t, SAMPLE_IDX,
                   LAST_PRED_IDX, s_data, s_exc, s_received>>
    /\ UNCHANGED <<u_pc, u_pairs, u_row, u_t, u_trel, u_axis, x_keys, resets>>
    /\ UNCHANGED nonServidorVars

(* ===================== decode_serialsensor_binary ====================== *)
DecTags == {65, 97, 1, 71, 0, LBrace}
DecVals == {0, 1, 2, 3, 0 - 2, NaN}
DecVecs == {<<x, y, z>> : x \in DecVals, y \in DecVals, z \in DecVals}

\* The datagrams decode_serialsensor_binary is called with
Packets ==
    UNION {{BinFrame(tag, vec), ShortFrame(tag, vec), LongFrame(tag, vec)} :
           tag \in DecTags, vec \in DecVecs}

\* parsed = decode_serialsensor_binary(data)
D_Decode ==
    /\ d_res = NotRun /\ d_pkt.len >= 0
    /\ d_res' = decode_serialsensor_binary(d_pkt)
    /\ UNCHANGED <<d_pkt, nonDecVars>>

InitDecode == d_pkt = NoData /\ d_res = NotRun

(* ================= registros.py and registros_csv.py =================== *)
MaxRuns == 2
MaxBlocks == 2
MaxRecvRec == 2

\* registros.py 8
SAMPLE_HZ == 60

Variants == {"registros", "registros_csv"}

Sensors == {"acc", "gyr", "grav"}

AxesOf(sn) ==
    CASE sn = "acc" -> {"acc_x", "acc_y", "acc_z"}
      [] sn = "gyr" -> {"gyr_x", "gyr_y", "gyr_z"}
      [] sn = "grav" -> {"grav_x", "grav_y", "grav_z"}

AllLastKeys == AxesOf("acc") \cup AxesOf("gyr") \cup AxesOf("grav")

\* The keys of LAST: registros.py 14-15, registros_csv.py 28-32
LastKeys(v) == IF v = "registros" THEN AxesOf("acc") \cup AxesOf("gyr") ELSE AllLastKeys

\* registros_csv.py 13: REQUIRE_SENSORS = {"acc"}
REQUIRE_SENSORS == {"acc"}

\* registros.py 84: all(LAST[k] is not None for k in LAST);
\* registros_csv.py 93-101: have_required_sensors()
HaveRequired(v, last) ==
    IF v = "registros" THEN \A k \in LastKeys(v) : last[k] # <<>>
    ELSE \A sn \in REQUIRE_SENSORS : \A k \in AxesOf(sn) : last[k] # <<>>

\* What the datagrams of the model give: the LAST keys for which a datagram
\* carries a number
KeySets ==
    {AxesOf("acc"), AxesOf("gyr"), AxesOf("acc") \cup AxesOf("gyr"), {"acc_x"}, {}}

RecVals == {1, 2}

DigitChars == <<"0", "1", "2", "3", "4", "5", "6", "7", "8", "9">>

\* str(n) of a natural number
RECURSIVE Digits(_)
Digits(n) ==
    IF n < 10 THEN <<DigitChars[n + 1]>> ELSE Digits(n \div 10) \o <<DigitChars[(n % 10) + 1]>>

IsDigit(c) == \E d \in 1..10 : DigitChars[d] = c

\* int(s) of a string of digits
RECURSIVE ParseInt(_)
ParseInt(ds) ==
    IF ds = <<>> THEN 0
    ELSE ParseInt(SubSeq(ds, 1, Len(ds) - 1)) * 10
         + ((CHOOSE d \in 1..10 : DigitChars[d] = ds[Len(ds)]) - 1)

S_csv == <<".", "c", "s", "v">>

\* registros.py 125: f"v{idx}_{tag}.csv"
FNameRegistros(idx, tag) == <<"v">> \o Digits(idx) \o <<"_", tag>> \o S_csv

\* registros_csv.py 211: f"{CURRENT_TAG}{idx}.csv"
FNameCsv(tag, idx) == <<tag>> \o Digits(idx) \o S_csv

\* pat.match(name) for ^v(\d+)(?:_[LR])?\.csv$: <<group 1>>, or <<>> for no match
PatMatch(name) ==
    IF Len(name) < 6 \/ name[1] # "v" \/ SubSeq(name, Len(name) - 3, Len(name)) # S_csv
    THEN <<>>
    ELSE LET rest == SubSeq(name, 2, Len(name) - 4)
             core == IF Len(rest) >= 2 /\ rest[Len(rest) - 1] = "_"
                        /\ rest[Len(rest)] \in {"L", "R"}
                     THEN SubSeq(rest, 1, Len(rest) - 2) ELSE rest
         IN  IF core # <<>> /\ \A i \in 1..Len(core) : IsDigit(core[i])
             THEN <<core>> ELSE <<>>

\* next_index_from_disk() on the listing dir of OUT_DIR
\* (registros.py 88-100, registros_csv.py 168-179)
next_index_from_disk(dir) ==
    LET idxs == {ParseInt(PatMatch(n)[1]) : n \in {f \in dir : PatMatch(f) # <<>>}} \cup {0}
    IN  (CHOOSE m \in idxs : \A k \in idxs : k <= m) + 1

\* main 176, 246: _ready_evt.wait() returns
M_Wake ==
    /\ m_pc = "wait" /\ ready_evt
    /\ m_pc' = "index"
    /\ UNCHANGED <<m_rows, variant, STOP, ready_evt, r_LAST, CURRENT_TAG, BUFFER, m_tag, m_idx,
                   m_blocks, l_pc, l_received, i_pc, files, used, runs>>
    /\ UNCHANGED nonRecVars

\* 179, 195: idx = next_index_from_disk()
M_Index ==
    /\ m_pc = "index"
    /\ m_idx' = next_index_from_disk(files)
    /\ m_pc' = "loop"
    /\ UNCHANGED <<m_rows, variant, STOP, ready_evt, r_LAST, CURRENT_TAG, BUFFER, m_tag,
                   m_blocks, l_pc, l_received, i_pc, files, used, runs>>
    /\ UNCHANGED nonRecVars

\* registros.py 181-183: while not STOP: tag = CURRENT_TAG; capture_block
\* starts.  registros_csv.py 197-198: the wait of one second starts
M_Begin ==
    /\ m_pc = "loop" /\ ~STOP /\ m_blocks < MaxBlocks
    /\ m_tag' = IF variant = "registros" THEN CURRENT_TAG ELSE m_tag
    /\ m_rows' = IF variant = "registros" THEN <<>> ELSE m_rows
    /\ m_blocks' = m_blocks + 1
    /\ m_pc' = "block"
    /\ UNCHANGED <<variant, STOP, ready_evt, r_LAST, CURRENT_TAG, BUFFER, m_idx,
                   l_pc, l_received, i_pc, files, used, runs>>
    /\ UNCHANGED nonRecVars

\* registros.py 105-122: capture_block takes n_samples rows, each ending in tag;
\* 124-134, 184: it writes them to v{idx}_{tag}.csv; idx += 1
M_EndBlock ==
    /\ m_pc = "block" /\ variant = "registros"
    /\ m_rows' = [i \in 1..SAMPLE_HZ |-> m_tag]
    /\ files' = files \cup {FNameRegistros(m_idx, m_tag)}
    /\ used' = used \cup {m_idx}
    /\ m_idx' = m_idx + 1
    /\ m_pc' = "loop"
    /\ UNCHANGED <<variant, STOP, ready_evt, r_LAST, CURRENT_TAG, BUFFER, m_tag,
                   m_blocks, l_pc, l_received, i_pc, runs>>
    /\ UNCHANGED nonRecVars

\* registros_csv.py 199-206, 184-185: STOP seen during the wait returns;
\* otherwise drain_buffer_rows starts with rows = [] and takes _lock
M_EndSecond ==
    /\ m_pc = "block" /\ variant = "registros_csv"
    /\ IF STOP
       THEN m_pc' = "finally" /\ UNCHANGED m_rows
       ELSE m_pc' = "drain" /\ m_rows' = <<>>
    /\ UNCHANGED <<variant, STOP, ready_evt, r_LAST, CURRENT_TAG, BUFFER, m_tag, m_idx,
                   m_blocks, l_pc, l_received, i_pc, files, used, runs>>
    /\ UNCHANGED nonRecVars

\* drain_buffer_rows 186-189: one packet leaves BUFFER and becomes a row whose
\* last column is CURRENT_TAG as it is read for that row
M_DrainRow ==
    /\ m_pc = "drain" /\ BUFFER # <<>>
    /\ BUFFER' = Tail(BUFFER)
    /\ m_rows' = Append(m_rows, CURRENT_TAG)
    /\ UNCHANGED <<variant, STOP, ready_evt, r_LAST, CURRENT_TAG, m_pc, m_tag, m_idx,
                   m_blocks, l_pc, l_received, i_pc, files, used, runs>>
    /\ UNCHANGED nonRecVars

\* drain_buffer_rows 186, 190: BUFFER is empty, _lock is released;
\* capture_every_second 207-209: no rows, continue
M_DrainEnd ==
    /\ m_pc = "drain" /\ BUFFER = <<>>
    /\ m_pc' = IF m_rows = <<>> THEN "loop" ELSE "write"
    /\ UNCHANGED <<m_rows, variant, STOP, ready_evt, r_LAST, CURRENT_TAG, BUFFER, m_tag,
                   m_idx, m_blocks, l_pc, l_received, i_pc, files, used, runs>>
    /\ UNCHANGED nonRecVars

\* capture_every_second 211-219: rows go to {CURRENT_TAG}{idx}.csv; idx += 1
M_Write ==
    /\ m_pc = "write"
    /\ files' = files \cup {FNameCsv(CURRENT_TAG, m_idx)}
    /\ used' = used \cup {m_idx}
    /\ m_idx' = m_idx + 1
    /\ m_pc' = "loop"
    /\ UNCHANGED <<m_rows, variant, STOP, ready_evt, r_LAST, CURRENT_TAG, BUFFER, m_tag,
                   m_blocks, l_pc, l_received, i_pc, runs>>
    /\ UNCHANGED nonRecVars

\* registros.py 181, registros_csv.py 197: while not STOP ends
M_LoopExit ==
    /\ m_pc = "loop" /\ STOP
    /\ m_pc' = "finally"
    /\ UNCHANGED <<m_rows, variant, STOP, ready_evt, r_LAST, CURRENT_TAG, BUFFER, m_tag, m_idx,
                   m_blocks, l_pc, l_received, i_pc, files, used, runs>>
    /\ UNCHANGED nonRecVars

\* registros.py 188-190, registros_csv.py 250-251: STOP = True; main returns
\* and the process, whose other threads are daemons, ends
M_Finally ==
    /\ m_pc = "finally"
    /\ STOP' = TRUE
    /\ m_pc' = "done"
    /\ UNCHANGED <<m_rows, variant, ready_evt, r_LAST, CURRENT_TAG, BUFFER, m_tag, m_idx,
                   m_blocks, l_pc, l_received, i_pc, files, used, runs>>
    /\ UNCHANGED nonRecVars

\* udp_listener 63, 110: while not STOP; 86, 166: sock.close()
L_Top ==
    /\ l_pc = "top" /\ m_pc # "done"
    /\ l_pc' = IF STOP THEN "done" ELSE "recv"
    /\ UNCHANGED <<m_rows, variant, STOP, ready_evt, r_LAST, CURRENT_TAG, BUFFER, m_pc, m_tag, m_idx,
                   m_blocks, l_received, i_pc, files, used, runs>>
    /\ UNCHANGED nonRecVars

\* The sensors a datagram of keys ks gives all three axes of
Complete(ks) == {sn \in Sensors : AxesOf(sn) \subseteq ks}

\* LAST after a datagram that carries the number v for the keys ks:
\* registros.py 76-83 stores each key, registros_csv.py 126-131 and 153-162
\* only the sensors whose three axes came
StoreRec(vr, last, ks, v) ==
    [k \in DOMAIN last |->
        IF k \in LastKeys(vr) /\ k \in ks
           /\ (vr = "registros" \/ \E sn \in Complete(ks) : k \in AxesOf(sn))
        THEN <<v>> ELSE last[k]]

\* The packets registros_csv.py 132, 163 appends to BUFFER
RECURSIVE PacketsOf(_, _)
PacketsOf(sns, v) ==
    IF sns = {} THEN <<>>
    ELSE LET sn == CHOOSE x \in sns : TRUE
         IN  <<[sensor |-> sn, x |-> v, y |-> v, z |-> v]>> \o PacketsOf(sns \ {sn}, v)

\* udp_listener 65-85, 112-165: recvfrom returns a datagram that carries v
\* for the keys ks; its stores wait for _lock while drain_buffer_rows holds it
L_Recv(ks, v) ==
    /\ l_pc = "recv" /\ m_pc # "done" /\ l_received < MaxRecvRec
    /\ m_pc # "drain"
    /\ l_received' = l_received + 1
    /\ LET last2 == StoreRec(variant, r_LAST, ks, v)
           updated == IF variant = "registros" THEN ks \cap LastKeys(variant) # {}
                      ELSE ks # {}
       IN  /\ r_LAST' = last2
           /\ BUFFER' = IF variant = "registros" THEN BUFFER
                        ELSE BUFFER \o PacketsOf(Complete(ks), v)
           /\ ready_evt' = (ready_evt \/ (updated /\ HaveRequired(variant, last2)))
    /\ l_pc' = "top"
    /\ UNCHANGED <<m_rows, variant, STOP, CURRENT_TAG, m_pc, m_tag, m_idx, m_blocks, i_pc,
                   files, used, runs>>
    /\ UNCHANGED nonRecVars

\* 66-69, 113-116: socket.timeout, or any other error (printed): continue
L_Continue ==
    /\ l_pc = "recv" /\ m_pc # "done"
    /\ l_pc' = "top"
    /\ UNCHANGED <<m_rows, variant, STOP, ready_evt, r_LAST, CURRENT_TAG, BUFFER, m_pc, m_tag, m_idx,
                   m_blocks, l_received, i_pc, files, used, runs>>
    /\ UNCHANGED nonRecVars

\* input_monitor 144-161, 227-237: one line read from the keyboard
I_Line(cmd) ==
    /\ i_pc = "run" /\ m_pc # "done" /\ ~STOP
    /\ CURRENT_TAG' = CASE cmd = "l" -> "L" [] cmd = "r" -> "R" [] OTHER -> CURRENT_TAG
    /\ STOP' = (cmd = "q")
    /\ i_pc' = IF cmd = "q" THEN "done" ELSE "run"
    /\ UNCHANGED <<m_rows, variant, ready_evt, r_LAST, BUFFER, m_pc, m_tag, m_idx,
                   m_blocks, l_pc, l_received, files, used, runs>>
    /\ UNCHANGED nonRecVars

\* The module state of a recorder that starts (registros.py 14-22, 166-176)
StartRecorder ==
    /\ STOP = FALSE
    /\ ready_evt = FALSE
    /\ r_LAST = [k \in AllLastKeys |-> <<>>]
    /\ CURRENT_TAG = "L"
    /\ BUFFER = <<>>
    /\ m_pc = "wait"
    /\ m_tag = "L"
    /\ m_rows = <<>>
    /\ m_idx = 0
    /\ m_blocks = 0
    /\ l_pc = "top"
    /\ l_received = 0
    /\ i_pc = "run"

\* The recorder is started again on the same OUT_DIR
P_Restart ==
    /\ m_pc = "done" /\ runs < MaxRuns
    /\ runs' = runs + 1
    /\ STOP' = FALSE
    /\ ready_evt' = FALSE
    /\ r_LAST' = [k \in AllLastKeys |-> <<>>]
    /\ CURRENT_TAG' = "L"
    /\ BUFFER' = <<>>
    /\ m_pc' = "wait"
    /\ m_tag' = "L"
    /\ m_rows' = <<>>
    /\ m_idx' = 0
    /\ m_blocks' = 0
    /\ l_pc' = "top"
    /\ l_received' = 0
    /\ i_pc' = "run"
    /\ UNCHANGED <<variant, files, used>>
    /\ UNCHANGED nonRecVars

InitRecorder ==
    /\ variant \in Variants
    /\ StartRecorder
    /\ files = {} /\ used = {} /\ runs = 1

IdleRecorder ==
    /\ variant = "registros"
    /\ StartRecorder
    /\ files = {} /\ used = {} /\ runs = 1

NextRecorder ==
    \/ M_Wake
    \/ M_Index
    \/ M_Begin
    \/ M_EndBlock
    \/ M_EndSecond
    \/ M_DrainRow
    \/ M_DrainEnd
    \/ M_Write
    \/ M_LoopExit
    \/ M_Finally
    \/ L_Top
    \/ \E ks \in KeySets, v \in RecVals : L_Recv(ks, v)
    \/ L_Continue
    \/ \E cmd \in {"l", "r", "q", "x"} : I_Line(cmd)
    \/ P_Restart

(* ========================= feature extractors ========================== *)
MaxFeatWin == 3

\* The readings of the windows the extractors are called with
FeatVecs == {VA, VB, VC, VN}

RECURSIVE WindowsOf(_)
WindowsOf(n) ==
    IF n = 0 THEN {<<>>}
    ELSE LET shorter == WindowsOf(n - 1)
         IN  shorter \cup {w \o <<Reading(0, v[1], v[2], v[3])>> :
                           w \in {u \in shorter : Len(u) = n - 1}, v \in FeatVecs}

AbsInt(i) == IF i < 0 THEN 0 - i ELSE i

RECURSIVE MinSeq(_)
MinSeq(s) ==
    IF Len(s) = 1 THEN s[1]
    ELSE LET h == Len(s) \div 2
             a == MinSeq(SubSeq(s, 1, h))
             b == MinSeq(SubSeq(s, h + 1, Len(s)))
         IN  IF a < b THEN a ELSE b

RECURSIVE MaxSeq(_)
MaxSeq(s) ==
    IF Len(s) = 1 THEN s[1]
    ELSE LET h == Len(s) \div 2
             a == MaxSeq(SubSeq(s, 1, h))
             b == MaxSeq(SubSeq(s, h + 1, Len(s)))
         IN  IF a > b THEN a ELSE b

NaNFraction == <<0, 0>>

\* _feat_block(arr) of servidor.py (54-63): [mean, std, min, max, rms, mad],
\* std and rms as the fractions whose square roots they are; numpy skips no
\* NaN, and min() of an empty array raises ValueError
_feat_block(arr) ==
    IF arr = <<>>
    THEN [exc |-> "ValueError", mean |-> NaNFraction, std |-> NaNFraction, vmin |-> NaN,
          vmax |-> NaN, rms |-> NaNFraction, mad |-> NaNFraction]
    ELSE IF \E i \in 1..Len(arr) : IsNaN(arr[i])
    THEN [exc |-> "none", mean |-> NaNFraction, std |-> NaNFraction, vmin |-> NaN,
          vmax |-> NaN, rms |-> NaNFraction, mad |-> NaNFraction]
    ELSE LET n == Len(arr)
             t == SumSeq(arr)
         IN  [exc  |-> "none",
              mean |-> <<t, n>>,
              std  |-> <<n * SumSeq(Sq(arr)) - t * t, n * n>>,
              vmin |-> MinSeq(arr),
              vmax |-> MaxSeq(arr),
              rms  |-> <<SumSeq(Sq(arr)), n>>,
              mad  |-> <<SumSeq([i \in 1..n |-> AbsInt(n * arr[i] - t)]), n * n>>]

\* np.concatenate of one _feat_block: its six entries in the order of 63
BlockEntries(b) == <<b.mean, b.std, b.vmin, b.vmax, b.rms, b.mad>>

\* np.sqrt(x**2 + y**2 + z**2), per sample (71-72)
MagOf(xs, ys, zs) ==
    [i \in 1..Len(xs) |-> ISqrt(xs[i] * xs[i] + ys[i] * ys[i] + zs[i] * zs[i])]

\* _make_feature_vector_from_buffers() of servidor.py (65-78) on the buffers
\* buff: None, or the array feats.reshape(1, -1) with its shape
_make_feature_vector_from_buffers(buff) ==
    IF \E k \in AxisKeys : Len(buff[k]) < WINDOW THEN None
    ELSE LET ax == buff["acc_x"]
             ay == buff["acc_y"]
             az == buff["acc_z"]
             gx == buff["gyro_x"]
             gy == buff["gyro_y"]
             gz == buff["gyro_z"]
             acc_mag == MagOf(ax, ay, az)
             gyro_mag == MagOf(gx, gy, gz)
             feats == BlockEntries(_feat_block(ax)) \o BlockEntries(_feat_block(ay))
                      \o BlockEntries(_feat_block(az)) \o BlockEntries(_feat_block(gx))
                      \o BlockEntries(_feat_block(gy)) \o BlockEntries(_feat_block(gz))
                      \o BlockEntries(_feat_block(acc_mag))
                      \o BlockEntries(_feat_block(gyro_mag))
         IN  [t |-> "array", shape |-> <<1, Len(feats)>>, v |-> feats]

\* F = ingenieriaCaracteristicas(df_win); _feat_block(ax)
F_Compute ==
    /\ f_out = NotRun
    /\ f_out' = [t |-> "Done",
                 F |-> ingenieriaCaracteristicas(f_win),
                 block |-> _feat_block(Col(f_win, "x"))]
    /\ UNCHANGED <<f_win, nonFeatVars>>

\* 209-222 of servidor_web.py has not been called on its own
InitClassify == c_F5 = <<0, 1>> /\ c_loaded = FALSE /\ c_out = NotRun

InitFeatures == f_win = <<>> /\ f_out = NotRun /\ InitClassify

(* =========================== specifications ============================ *)
vars == <<webVars, basVars, srvVars, decVars, featVars, ownerVars, streamVars, recVars, raceVars, clsVars>>

\* servidor_web.py: udp_loop under any traffic
Init == InitWebCommon /\ feed = <<>> /\ IdleBasico /\ InitServidor /\ IdleRecorder /\ InitStream /\ InitOwner /\ InitFeatures /\ InitDecode
Next == UdpLoop
Spec == Init /\ [][Next]_vars

\* servidor_web.py: udp_loop and /api/status requests
InitSpecStatus == InitWebCommon /\ feed = <<>> /\ IdleBasico /\ InitServidor /\ IdleRecorder /\ InitStream /\ InitOwner /\ InitFeatures /\ InitDecode
NextStatus ==
    \/ U_Top
    \/ \E w \in Waits : U_Recv(1, w)
    \/ U_Timeout
    \/ U_Ingest
    \/ U_Check
    \/ \E o \in ModelOutcomes : U_Infer(o)
    \/ \E k \in 1..Len(Fields) : U_Publish(k)
    \/ \E r \in Readers : R_Begin(r)
    \/ \E r \in Readers : R_Copy(r)
    \/ \E r \in Readers : R_Respond(r)
SpecStatus == InitSpecStatus /\ [][NextStatus]_vars

\* servidor_web.py: udp_loop on a host whose wall clock may be set back
InitSpecWall == InitWebCommon /\ feed = <<>> /\ IdleBasico /\ InitServidor /\ IdleRecorder /\ InitStream /\ InitOwner /\ InitFeatures /\ InitDecode
NextWall ==
    \/ U_Top
    \/ \E w \in Waits : U_Recv(1, w)
    \/ U_Timeout
    \/ U_Ingest
    \/ U_Check
    \/ \E o \in ModelOutcomes : U_Infer(o)
    \/ \E k \in 1..Len(Fields) : U_Publish(k)
    \/ \E d \in 1..MaxSetBack : ClockSetBack(d)
SpecWall == InitSpecWall /\ [][NextWall]_vars

\* servidor_web.py: three binary frames 10 ms apart, then silence
ScenarioFrameVecs == <<VA, VB, VC>>

ScenarioFrames == [i \in 1..3 |-> BinFrame(65, ScenarioFrameVecs[i])]

\* recvfrom times out: before the first frame or after the last
U_TimeoutFeed == (received = 0 \/ feed = <<>>) /\ U_Timeout

InitSpecScenarioA ==
    InitWebCommon /\ feed = ScenarioFrames /\ IdleBasico /\ InitServidor /\ IdleRecorder /\ InitStream /\ InitOwner /\ InitFeatures /\ InitDecode
NextScenarioA ==
    \/ U_Top
    \/ \E w \in 0..(RECV_TIMEOUT - 1) : U_RecvFeed(w)
    \/ U_TimeoutFeed
    \/ U_Ingest
    \/ U_Check
    \/ \E o \in ModelOutcomes : U_Infer(o)
    \/ \E k \in 1..Len(Fields) : U_Publish(k)
SpecScenarioA == InitSpecScenarioA /\ [][NextScenarioA]_vars

\* servidor_basico.py: main under any traffic
InitSpecBasico == IdleWeb /\ InitBasico /\ InitServidor /\ IdleRecorder /\ InitStream /\ InitOwner /\ InitFeatures /\ InitDecode
SpecBasico == InitSpecBasico /\ [][NextBasico]_vars

\* servidor.py: udp_loop under any traffic
InitSpecServidor == IdleWeb /\ IdleBasico /\ InitServidor /\ IdleRecorder /\ InitStream /\ InitOwner /\ InitFeatures /\ InitDecode
SpecServidor == InitSpecServidor /\ [][NextServidor]_vars

\* servidor.py: udp_loop fed one datagram with the six axes per sampling
\* period, until the buffers of BUFF are full and past the first prediction
MaxRecvWindow == 130

InitSpecWindow == IdleWeb /\ IdleBasico /\ InitServidor /\ IdleRecorder /\ InitStream /\ InitOwner /\ InitFeatures /\ InitDecode
NextWindow ==
    \E o \in ModelOutcomes : S_DatagramWithin(MaxRecvWindow, Len(S_Datagrams), SAMPLE_PERIOD, o)
SpecWindow == InitSpecWindow /\ [][NextWindow]_vars

\* servidor_web.py 209-222 on every F[4] of F5Inputs, with and without a model
InitSpecClassify ==
    /\ IdleWeb /\ IdleBasico /\ InitServidor /\ IdleRecorder /\ InitStream /\ InitOwner
    /\ f_win = <<>> /\ f_out = NotRun /\ InitDecode
    /\ c_F5 \in F5Inputs /\ c_loaded \in BOOLEAN /\ c_out = NotRun
NextClassify == \E o \in ModelOutcomes : C_Classify(o)
SpecClassify == InitSpecClassify /\ [][NextClassify]_vars

\* servidor_basico.py main and servidor_web.py udp_loop on the same datagrams
\* and the same clock readings: main runs an iteration (datagram i after w
\* ticks), then udp_loop runs its iteration on that datagram and that wait
\* The datagrams both programs decode alike: the same reading, or none, and
\* the same exception
ScheduleDatagrams ==
    {i \in 1..Len(Datagrams) :
        LET r == DecodedBasico[i]
            q == IngestWeb(Datagrams[i], 0, 0)
        IN  /\ r.exc = q.exc
            /\ AppendBasico(<<>>, r, 0) = q.add}

J_Basico(i, w) ==
    /\ pc = "top" /\ exc = "none" /\ received = b_received /\ received < MaxRecv
    /\ B_Recv(i, w)

J_WebTop == received < b_received /\ U_Top

J_WebRecv == received < b_received /\ U_Recv(b_data, b_clock - clock)

InitSpecSchedule ==
    /\ IdleWeb /\ IdleBasico /\ InitServidor /\ IdleRecorder /\ InitStream /\ InitOwner
    /\ InitFeatures /\ InitDecode
NextSchedule ==
    \/ \E i \in ScheduleDatagrams, w \in Waits : J_Basico(i, w)
    \/ J_WebTop
    \/ J_WebRecv
    \/ U_Ingest
    \/ U_Check
    \/ U_Infer(Raises)
    \/ \E k \in 1..Len(Fields) : U_Publish(k)
SpecSchedule == InitSpecSchedule /\ [][NextSchedule]_vars

\* registros.py and registros_csv.py: main, udp_listener and input_monitor
InitSpecRecorder ==
    /\ IdleWeb /\ IdleBasico /\ InitServidor /\ InitStream /\ InitOwner /\ InitFeatures
    /\ InitDecode /\ InitRecorder
SpecRecorder == InitSpecRecorder /\ [][NextRecorder]_vars

\* servidor.py: udp_loop, one /stream client and /reset requests
StreamDatagrams == {1, 2, Len(S_Datagrams)}

InitSpecStream ==
    IdleWeb /\ IdleBasico /\ InitServidor /\ IdleRecorder /\ InitStream /\ InitOwner /\ InitFeatures /\ InitDecode
NextStream ==
    \/ \E i \in StreamDatagrams, w \in {0, SAMPLE_PERIOD} : S_Datagram(i, w, Raises)
    \/ S_Reset
    \/ G_Poll
    \/ G_Sleep
SpecStream == InitSpecStream /\ [][NextStream]_vars

\* servidor.py: udp_loop, /reset and one /stream client, statement by statement;
\* the phone sends an accelerometer and a gyroscope datagram in turn, one per
\* sampling period
RaceDatagram(n) == (n % 2) + 1

InitSpecRace ==
    IdleWeb /\ IdleBasico /\ InitServidor /\ IdleRecorder /\ InitStream /\ InitOwner /\ InitFeatures /\ InitDecode
NextRace ==
    \/ UL_Recv(RaceDatagram(s_received), SAMPLE_PERIOD)
    \/ UL_Pair
    \/ UL_Inc
    \/ UL_Append
    \/ UL_Last
    \/ UL_Ready
    \/ UL_Push
    \/ UL_Sample(Raises)
    \/ RS_Rows
    \/ RS_Buff
    \/ RS_Last
    \/ RS_Times
    \/ RS_Seq
    \/ G_Poll
    \/ G_Sleep
SpecRace == InitSpecRace /\ [][NextRace]_vars

\* decode_serialsensor_binary on every datagram of Packets
InitSpecDecode ==
    /\ IdleWeb /\ IdleBasico /\ InitServidor /\ IdleRecorder /\ InitStream /\ InitOwner /\ InitFeatures
    /\ d_pkt \in Packets /\ d_res = NotRun
NextDecode == D_Decode
SpecDecode == InitSpecDecode /\ [][NextDecode]_vars

\* {"accel:<axis>": v}: a message that carries one axis
AxisDoc(axis, v) == JObj(<<KV(K(S_accel, axis), JNum(v))>>)

\* servidor_web.py: the axes of VA in three datagrams, one axis each, then
\* three complete frames, then silence
SplitFeed ==
    <<TextDatagram(LBrace, 14, AxisDoc(S_x, VA[1])),
      TextDatagram(LBrace, 14, AxisDoc(S_y, VA[2])),
      TextDatagram(LBrace, 14, AxisDoc(S_z, VA[3])),
      BinFrame(65, VB), BinFrame(65, VC), BinFrame(65, VB)>>

InitSpecSplitAxes ==
    InitWebCommon /\ feed = SplitFeed /\ IdleBasico /\ InitServidor /\ IdleRecorder /\ InitStream /\ InitOwner /\ InitFeatures /\ InitDecode
NextSplitAxes ==
    \/ U_Top
    \/ \E w \in 0..(RECV_TIMEOUT - 1) : U_RecvFeed(w)
    \/ U_TimeoutFeed
    \/ U_Ingest
    \/ U_Check
    \/ \E o \in ModelOutcomes : U_Infer(o)
    \/ \E k \in 1..Len(Fields) : U_Publish(k)
SpecSplitAxes == InitSpecSplitAxes /\ [][NextSplitAxes]_vars

\* servidor_web.py: udp_loop on a socket that may fail, and /api/status requests
InitSpecRecvError ==
    InitWebCommon /\ feed = <<>> /\ IdleBasico /\ InitServidor /\ IdleRecorder /\ InitStream /\ InitOwner /\ InitFeatures /\ InitDecode
NextRecvError ==
    \/ U_Top
    \/ \E w \in Waits : U_Recv(1, w)
    \/ U_Timeout
    \/ U_RecvError
    \/ U_Ingest
    \/ U_Check
    \/ \E o \in ModelOutcomes : U_Infer(o)
    \/ \E k \in 1..Len(Fields) : U_Publish(k)
    \/ \E r \in Readers : R_Begin(r)
    \/ \E r \in Readers : R_Copy(r)
    \/ \E r \in Readers : R_Respond(r)
SpecRecvError == InitSpecRecvError /\ [][NextRecvError]_vars

\* servidor_web.py: udp_loop and the owner who stops the process
InitSpecShutdown ==
    InitWebCommon /\ feed = <<>> /\ IdleBasico /\ InitServidor /\ IdleRecorder /\ InitStream /\ InitOwner /\ InitFeatures /\ InitDecode
NextShutdown ==
    \/ U_Top
    \/ \E w \in Waits : U_Recv(1, w)
    \/ U_Timeout
    \/ U_Ingest
    \/ U_Check
    \/ \E o \in ModelOutcomes : U_Infer(o)
    \/ \E k \in 1..Len(Fields) : U_Publish(k)
    \/ M_Shutdown
    \/ M_Exit
SpecShutdown == InitSpecShutdown /\ [][NextShutdown]_vars

\* ingenieriaCaracteristicas and _feat_block on every window of up to
\* MaxFeatWin readings
InitSpecFeatures ==
    /\ IdleWeb /\ IdleBasico /\ InitServidor /\ IdleRecorder /\ InitStream /\ InitOwner /\ InitDecode
    /\ f_win \in WindowsOf(MaxFeatWin) /\ f_out = NotRun /\ InitClassify
NextFeatures == F_Compute
SpecFeatures == InitSpecFeatures /\ [][NextFeatures]_vars

(* =============================== claims ================================ *)
LastOf(w) == w[Len(w)]

\* C1: after an eviction pass every reading kept in window has a timestamp
\* >= now - WINDOW_SEC, whatever the order of the timestamps (SpecWall).
\* Refuted: the pass stops at the first reading that is recent enough, so a
\* reading stamped after the wall clock was set back stays behind a newer one.
CE_C1 ==
    pc # "top" => \A i \in 1..Len(window) : window[i].t >= now - WINDOW_SEC

\* C2: every snapshot api_status returns has label, prob_rapido, F, n and
\* updated_at written by the same inference cycle, or all at their initial
\* values (SpecStatus).
Thm_C2 ==
    \A r \in Readers :
        rpc[r] = Len(Fields) + 1 =>
            /\ \A f, g \in DOMAIN payload[r].st : payload[r].st[f] = payload[r].st[g]
            /\ (payload[r].st["label"] = 0 => payload[r].val = InitialPred)
            /\ (payload[r].st["label"] > 0 =>
                    /\ payload[r].val.label \in {"R", "L"}
                    /\ payload[r].val.n >= MIN_SAMPLES)

\* A request has copied a snapshot that an inference cycle published
Witness_C2 ==
    \E r \in Readers : rpc[r] = Len(Fields) + 1 /\ payload[r].st["updated_at"] >= 1

\* C3: no received datagram makes an exception escape udp_loop of
\* servidor_web.py (Spec).  Refuted: float() of an integer beyond the range
\* of a double raises OverflowError, which line 186 does not catch.
CE_C3 == exc = "none" /\ pc # "dead"

\* C4: when predict_proba raises, the exception is caught, the threshold rule
\* gives a valid result and the loop keeps running, in servidor_basico.py too
\* (SpecBasico).  Refuted: main calls predict_proba with no handler.
CE_C4 ==
    b_raised => /\ b_exc = "none"
                /\ b_out.pred \in {"R", "L"}
                /\ ProbInUnit(b_out.prob)

\* The means of the three frames of scenario A, as round(x, 6) publishes them
ScenarioMean(a) ==
    <<Round6(<<ScenarioFrameVecs[1][a] + ScenarioFrameVecs[2][a] + ScenarioFrameVecs[3][a],
               3>>)>>

PublishedScenarioA ==
    /\ last_pred.n = 3
    /\ last_pred.F.F1 = ScenarioMean(1)
    /\ last_pred.F.F2 = ScenarioMean(2)
    /\ last_pred.F.F3 = ScenarioMean(3)

\* C5: after the three frames of scenario A a prediction state with n = 3
\* and F1, F2, F3 the means of the inputs is published, for every timing
\* (SpecScenarioA).  With no further traffic the window never grows again,
\* so the state must have been published by the time an eviction pass leaves
\* fewer than three readings.  Refuted: the cadence test falls on the first
\* or second frame and the first frame is evicted before the next test.
CE_C5 ==
    (feed = <<>> /\ received = Len(ScenarioFrames) /\ pc = "recv"
        /\ Len(window) < MIN_SAMPLES)
    => PublishedScenarioA

Uncoercible(d) ==
    /\ d.doc.t = "dict"
    /\ \E i \in 1..Len(d.doc.items) :
           PyFloat(d.doc.items[i].v).exc \in {"TypeError", "ValueError"}

\* C7: an axis value that fails numeric coercion is dropped and no exception
\* escapes, in servidor_basico.py too (SpecBasico).  Refuted: line 161 of
\* servidor_basico.py calls float(val) with no handler.
CE_C7 ==
    (b_data # 0 /\ Uncoercible(Datagrams[b_data])) => b_exc = "none"

\* C8: a 13-byte datagram with a tag of the table decodes to the group of the
\* tag and the little-endian floats at offsets 1, 5, 9 (the frame the sender
\* packed vec into gives back vec, for the tags 65, 97 and 1 alike); a
\* 13-byte datagram with another tag, and a datagram of 12 or 14 bytes,
\* decodes to None (SpecDecode).
Thm_C8 ==
    d_res # NotRun =>
        \A tag \in DecTags, vec \in DecVecs :
            /\ (d_pkt = BinFrame(tag, vec) /\ tag \in {65, 97, 1})
                   => d_res = [t |-> "acc", x |-> vec[1], y |-> vec[2], z |-> vec[3]]
            /\ (d_pkt = BinFrame(tag, vec) /\ tag \notin {65, 97, 1}) => d_res = None
            /\ (d_pkt \in {ShortFrame(tag, vec), LongFrame(tag, vec)}) => d_res = None

\* A frame with the small-integer tag decoded to three different values
Witness_C8 ==
    /\ d_res = [t |-> "acc", x |-> 0 - 2, y |-> 1, z |-> 3]
    /\ d_pkt.bytes[1] = 1

\* C9: a datagram whose first byte is neither { nor [ is dropped by udp_loop
\* of servidor.py without raising (SpecServidor).  Refuted: a bare JSON
\* number, string, boolean or null parses, and iter_pairs_from_msg calls
\* items() on it.
CE_C9 ==
    (s_data # 0 /\ FirstByte(S_Datagrams[s_data]) \notin {LBrace, LBracket})
    => s_exc = "none"

\* The complete accelerometer messages among the datagrams, with their vector
CompleteOf(d) ==
    {vec \in {VA, VB} : \E k \in 1..Len(CompleteDocs(vec)) : d.doc = CompleteDocs(vec)[k]}

\* C10: a JSON message with the three accelerometer axes in any accepted
\* shape gives one complete reading with the same x, y, z, in
\* servidor_basico.py as in servidor_web.py (SpecBasico).  Refuted:
\* iter_pairs_from_json_msg of servidor_basico.py has no branch for an
\* axis-keyed map under sensordata.
CE_C10 ==
    \A vec \in {VA, VB} :
        (b_data # 0 /\ b_exc = "none" /\ vec \in CompleteOf(Datagrams[b_data]))
        => /\ b_appended
           /\ LastOf(b_window).x = vec[1]
           /\ LastOf(b_window).y = vec[2]
           /\ LastOf(b_window).z = vec[3]

(* ------------------------------ C11 - C20 ------------------------------ *)
\* The accelerometer entries of LAST hold the vector vec
LastAccIs(vec) ==
    /\ LAST["acc_x"] = <<vec[1]>>
    /\ LAST["acc_y"] = <<vec[2]>>
    /\ LAST["acc_z"] = <<vec[3]>>

\* C11: flat keys whose group is accel, accelerometer or acc resolve to the
\* same accelerometer axis, so the message {"<alias>:x": .., "<alias>:y": ..,
\* "<alias>:z": ..} updates the state the same way under every alias: in
\* servidor.py, LAST holds its values afterwards (SpecServidor).  Refuted:
\* udp_loop of servidor.py updates LAST for the keys "accel:x", "accel:y",
\* "accel:z" only.
CE_C11 ==
    \A alias \in AccNames :
        (s_data # 0 /\ s_exc = "none" /\ S_Datagrams[s_data].doc = FlatDoc(alias, VA))
        => LastAccIs(VA)

\* C12: the axis values of a group are kept across packets: when x, y and z
\* arrive in three datagrams, one axis each, a complete reading is emitted
\* once the third has arrived (SpecSplitAxes).  Refuted: udp_loop of
\* servidor_web.py starts every packet with axes = {x: None, y: None, z: None}.
CE_C12 ==
    (received = 3 /\ pc = "check")
    => /\ appended
       /\ LastOf(window).x = VA[1]
       /\ LastOf(window).y = VA[2]
       /\ LastOf(window).z = VA[3]

\* The pairs the loop of udp_loop gets to: those before the first whose
\* float() raises an exception the loop does not catch
RECURSIVE Processed(_)
Processed(pairs) ==
    IF pairs = <<>> THEN <<>>
    ELSE IF PyFloat(Head(pairs).val).exc \notin {"none", "TypeError", "ValueError"}
    THEN <<>>
    ELSE <<Head(pairs)>> \o Processed(Tail(pairs))

\* The values a packet writes to the entry a of LAST, in order
WrittenTo(pairs, a) ==
    LET hit(p) == LastKeyOf(p.key) = a /\ PyFloat(p.val).exc = "none"
        sel == SelectSeq(Processed(pairs), hit)
    IN  [i \in 1..Len(sel) |-> PyFloat(sel[i].val).v]

\* C13: last write wins: after a packet, an entry of LAST the packet wrote
\* holds the last value written to it, whether the earlier value came from
\* the same packet or from an earlier one, and every entry it did not write
\* is unchanged (SpecServidor).
Thm_C13 ==
    [][(s_received' # s_received /\ ParsedServidor[s_data'].exc = "none"
            /\ ~ParsedServidor[s_data'].drop)
       => \A a \in AxisKeys :
              LET w == WrittenTo(ParsedServidor[s_data'].pairs, a)
              IN  LAST'[a] = IF w = <<>> THEN LAST[a] ELSE <<w[Len(w)]>>]_vars

\* The x axis was written twice by one packet, after a packet of another
\* group: the second value is kept, y, z and the gyroscope are as written
Witness_C13 ==
    /\ s_data # 0
    /\ S_Datagrams[s_data].doc = DupAxisDoc(VA)
    /\ LastAccIs(VA)
    /\ LAST["gyro_x"] = <<VB[1]>>

\* A packet gives a value to each of x, y and z: a 13-byte frame with a tag
\* of the table, or a JSON object whose triples, all processed, leave no
\* axis without a value float() accepted
GivesReading(d) ==
    IF d.len = MESSAGE_LENGTH THEN d.bytes[1] \in DOMAIN SENSOR_TAG_MAP
    ELSE /\ d.len > 0
         /\ FirstByte(d) \in {LBrace, LBracket}
         /\ d.doc.t = "dict"
         /\ LET tr == iter_pairs_from_json_msg(d.doc)
            IN  /\ \A i \in 1..Len(tr) :
                       PyFloat(tr[i].val).exc \in {"none", "TypeError", "ValueError"}
                /\ \A a \in AxisNames :
                       \E i \in 1..Len(tr) :
                           tr[i].axis = a[1] /\ PyFloat(tr[i].val).exc = "none"

\* C14: every tuple of window has its three axis values, all numbers;
\* udp_loop appends one reading for a packet that gives a value to x, y and
\* z, and nothing for a packet that leaves an axis None (Spec).
Thm_C14 ==
    /\ [](\A i \in 1..Len(window) :
              window[i].x \in Int /\ window[i].y \in Int /\ window[i].z \in Int)
    /\ [][(pc = "ingest" /\ pc' # "ingest")
          => IF GivesReading(data)
             THEN appended' /\ Len(window') = Len(window) + 1
                  /\ SubSeq(window', 1, Len(window)) = window
             ELSE ~appended' /\ window' = window]_vars

\* A first packet whose y axis was the boolean true gave the reading
\* (4, 1.0, 8); the second packet left an axis None and appended nothing
Witness_C14 ==
    /\ pc = "check" /\ received = 2 /\ ~appended
    /\ Len(window) = 1
    /\ window[1].x = 4 /\ window[1].y = 1 /\ window[1].z = 8

\* C15: the readings of window are in non-decreasing timestamp order
\* (SpecWall).  Refuted: the timestamps are readings of the wall clock, and a
\* reading appended after the clock was set back is stamped earlier than the
\* one before it.
CE_C15 ==
    \A i \in 1..(Len(window) - 1) : window[i].t <= window[i + 1].t

\* C16: last_pred starts with label, prob_rapido and updated_at None, F all
\* None and n = 0; an inference cycle that finds fewer than 3 samples raises
\* nothing and leaves last_pred unchanged; so whenever udp_loop is not inside
\* a cycle, last_pred is the initial one or has n >= 3 and a label (Spec).
Thm_C16 ==
    /\ InitialPred = [label |-> "None", prob_rapido |-> NoProb, F |-> NoF, n |-> 0,
                      updated_at |-> <<>>]
    /\ [](state_lock # "udp" =>
            \/ last_pred = InitialPred
            \/ last_pred.n >= 3 /\ last_pred.label \in {"R", "L"})
    /\ [][(pc = "check" /\ Len(window) < 3)
          => last_pred' = last_pred /\ exc' = "none" /\ pc' = "top"]_vars

\* A cycle was due with one or two samples in the window and was skipped
Witness_C16 ==
    /\ pc = "top" /\ last_pred_t = now /\ received > 0
    /\ Len(window) \in {1, 2}
    /\ last_pred = InitialPred /\ exc = "none"

\* C17: every prediction state udp_loop has published, under the model or
\* the threshold rule and for every window content, has a label of {R, L} and
\* a prob_rapido in [0, 1] (Spec).  Refuted: when every reading of the window
\* has a NaN axis, F5 is NaN and the threshold rule publishes the
\* probability NaN.
CE_C17 ==
    (state_lock # "udp" /\ last_pred # InitialPred)
    => /\ last_pred.label \in {"R", "L"}
       /\ ProbInUnit(last_pred.prob_rapido)

\* A prediction state published from the model's probability
ModelPublished == state_lock # "udp" /\ last_pred.prob_rapido.k = "model"

\* C18 as written: under the model the published confidence is the
\* probability of the published label, the larger of the two, so it is
\* >= 0.5 whichever label is published (Spec).
Orig_C18 ==
    ModelPublished => 2 * last_pred.prob_rapido.num >= last_pred.prob_rapido.den

\* C18: under the model, servidor_web.py publishes as prob_rapido the
\* probability the model gives to class 1 (R), whichever label is published,
\* and the label is the class with the larger probability, R on a tie: the
\* label is R exactly when prob_rapido >= 0.5, so a published L comes with a
\* prob_rapido below 0.5 (Spec).
Thm_C18 ==
    ModelPublished
    => /\ ProbInUnit(last_pred.prob_rapido)
       /\ (last_pred.label = "R"
              <=> 2 * last_pred.prob_rapido.num >= last_pred.prob_rapido.den)
       /\ (last_pred.label = "L"
              <=> 2 * last_pred.prob_rapido.num < last_pred.prob_rapido.den)

\* The model gave class 1 a probability below 0.5: L is published with it
Witness_C18 ==
    /\ ModelPublished
    /\ last_pred.label = "L"
    /\ 2 * last_pred.prob_rapido.num < last_pred.prob_rapido.den

\* The square of the population standard deviation (divisor n) of the
\* values of s that are not NaN, as the fraction <<numerator, denominator>>
PopVar(s) ==
    LET v == SkipNa(s)
    IN  <<Len(v) * SumSeq(Sq(v)) - SumSeq(v) * SumSeq(v), Len(v) * Len(v)>>

\* The fractions f and g are the same number
SameFraction(f, g) == f[1] * g[2] = g[1] * f[2]

\* C19: the standard deviations that enter F4 are population standard
\* deviations, with divisor n (Spec: the feature vector an inference cycle
\* of servidor_web.py has computed from the window).  Refuted: Series.std()
\* of pandas divides by n - 1.
CE_C19 ==
    pc = "infer"
    => /\ SameFraction(loc.F.F4[1], PopVar(Col(window, "x")))
       /\ SameFraction(loc.F.F4[2], PopVar(Col(window, "y")))
       /\ SameFraction(loc.F.F4[3], PopVar(Col(window, "z")))

\* The fraction f is the number 0
IsZero(f) == f[2] # 0 /\ f[1] = 0

\* C20: on a window of 0 or 1 samples the feature computation raises nothing
\* and the standard deviation it returns is 0.0 (SpecFeatures).  Refuted:
\* Series.std() of pandas returns NaN for fewer than two samples, and
\* _feat_block raises ValueError on an empty array.
CE_C20 ==
    (f_out # NotRun /\ Len(f_win) <= 1)
    => /\ \A k \in 1..3 : IsZero(f_out.F.F4[k])
       /\ f_out.block.exc = "none"
       /\ IsZero(f_out.block.std)
(* ----------------------------- C21 - C30 ------------------------------- *)
\* C21: once shutdown is requested udp_loop leaves its loop within one receive
\* timeout, by itself (it is not stopped inside the loop) and with its socket
\* closed (SpecShutdown).  Refuted: udp_loop is "while True" and reads no
\* shutdown flag; it runs until the interpreter exit stops the daemon thread.
CE_C21 ==
    shutdown # <<>>
    => /\ pc # "killed"
       /\ (clock > shutdown[1] + RECV_TIMEOUT => SocketClosed)

\* C22: a receive timeout continues the loop; a socket error of recvfrom that
\* is not a timeout ends the ingest loop, and from then on the process does
\* not go on serving as if ingest were alive: it takes no new /api/status
\* request (SpecRecvError).  Refuted: the error ends only the udp_loop thread;
\* the web server keeps answering with the last prediction.
CE_C22 ==
    /\ []((pc = "ingest" /\ data = NoData) => exc = "none")
    /\ [](exc = "OSError" => SocketClosed)
    /\ [][exc = "OSError" => \A r \in Readers : rpc[r] = 0 => rpc'[r] = 0]_vars

\* C23: every row appended to rows while a /stream client is connected is
\* sent to that client: when a poll of the generator ends, each row that is
\* in rows has been sent (SpecStream).  Refuted: /reset sets NEXT_SEQ back to
\* 0 while the client's cursor last_seq stays, so the rows appended after a
\* reset have seq <= last_seq and are never selected.
CE_C23 ==
    [][(g_pc = "poll" /\ g_pc' = "sleep")
       => \A i \in 1..Len(rows) : \E j \in 1..Len(sent') : sent'[j] = rows[i]]_vars

\* No thread is left that can set _ready_evt, and main waits for it
StuckWaiting == STOP /\ m_pc = "wait" /\ ~ready_evt /\ l_pc = "done" /\ i_pc = "done"

\* C24: once the operator has entered 'q' the recorder terminates from every
\* state: it never reaches a state where STOP is set and main can no longer
\* return (SpecRecorder).  Refuted: before the first complete set of values,
\* main is blocked in _ready_evt.wait(), which no STOP ends.
CE_C24 == ~StuckWaiting

\* C25: the index next_index_from_disk gives main is greater than the index
\* of every file the recorder has written into OUT_DIR (SpecRecorder).
\* Refuted: registros_csv.py names its files {tag}{idx}.csv and searches for
\* v{idx}.csv and v{idx}_{tag}.csv, so after a restart idx is 1 again.
CE_C25 == m_pc \in {"loop", "block"} => \A i \in used : m_idx > i

\* C26: every reading an inference cycle counts in n and computes the features
\* from has a timestamp >= t - WINDOW_SEC, t being the clock when the cycle
\* reads the window (Spec).  Refuted: the only eviction pass is at the top of
\* the loop, before recvfrom; the cycle that follows the wait reads the window
\* as that pass left it.
CE_C26 ==
    pc = "infer" => \A i \in 1..Len(window) : window[i].t >= clock - WINDOW_SEC

\* C27: udp_loop holds state_lock only while it copies the window and while
\* it writes last_pred; when the features have been computed and the
\* classifier is about to run, udp_loop does not hold the lock, so that
\* api_status can enter (SpecStatus).  Refuted: one "with state_lock" block
\* spans the window read, the features, the inference and the update.
CE_C27 == pc = "infer" => state_lock # "udp"

\* C28: when datagrams stop arriving, every reading in window is eventually
\* evicted: the eviction pass recurs at every receive timeout, so udp_loop
\* never comes to rest with readings left in window (Spec).  Refuted: the
\* OverflowError of C3 ends udp_loop; the readings then in window stay there.
CE_C28 == pc = "dead" => window = <<>>

\* C29: inference has its own cadence, independent of ingest: after a cycle
\* the next one starts no later than STEP_SEC of clock time, whatever recvfrom
\* does. The previous cycle started no later than the top of this iteration
\* (now), so when the loop reaches the cadence test the clock is at most
\* STEP_SEC past now (Spec). The code has one loop: the cadence test (195)
\* comes after recvfrom (156), which waits up to 1.0 s (137).
CE_C29 == (pc = "check" /\ last_pred_t > 0) => clock - now <= STEP_SEC

\* C30: a datagram whose first byte is { or [ is taken by the JSON branch of
\* udp_loop whatever its length, 13 bytes included; the binary branch takes
\* only 13-byte datagrams that do not start with { or [ (Spec). The code tests
\* len(data) == MESSAGE_LENGTH first (163) and the first byte in its elif (171).
TextualDatagram(d) == d.len > 0 /\ FirstByte(d) \in {LBrace, LBracket}
CE_C30 == (pc = "ingest" /\ TextualDatagram(data)) => PathWeb(data) = "text"

(* ---------------------------- C31 - C38 ------------------------------ *)
\* C31: NEXT_SEQ is a monotonic row counter: a row appended to rows has a seq
\* greater than the seq of every row appended before it, /reset calls
\* included. The rows a /stream client was sent were appended before
\* (SpecStream). /reset sets NEXT_SEQ back to 0 (237).
CE_C31 ==
    [][\A j \in (Len(rows) + 1)..Len(rows') :
          \A k \in 1..Len(sent) : rows'[j].seq > sent[k].seq]_vars

\* C32: no row is sent twice to the same /stream client: a batch holds only
\* rows that no earlier batch sent to the client held, for any interleaving of
\* udp_loop, the polls of gen() and /reset (SpecRace).
CE_C32 ==
    [][\A j \in (Len(sent) + 1)..Len(sent') :
          \A k \in 1..Len(sent) : sent'[j] # sent[k]]_vars

\* C33: every value in the six buffers of BUFF is a number, never None, and
\* each BUFF[k].append(LAST[k]) of udp_loop reads a LAST[k] that is not None,
\* for any interleaving of udp_loop with /reset (SpecRace).
CE_C33 ==
    /\ \A a \in AxisKeys : \A i \in 1..Len(BUFF[a]) : BUFF[a][i] # NoneVal
    /\ (u_pc = "push" => LAST[AxisOrder[u_axis + 1]] # <<>>)

\* C34, the sampling period: udp_loop takes a sample only when at least
\* SAMPLE_PERIOD has passed since the previous sample. The first sample is
\* taken no earlier than SAMPLE_PERIOD, so after k samples the clock is at
\* least k * SAMPLE_PERIOD (SpecStream). /reset sets _last_sample_t back to
\* 0.0 (235) and the next complete LAST is sampled at once.
CE_C34 == SAMPLE_IDX * SAMPLE_PERIOD <= s_clock

\* C35: _make_feature_vector_from_buffers returns None while a buffer of BUFF
\* holds fewer than WINDOW samples, and otherwise one row of 60 features: the
\* blocks [mean, std, min, max, rms, mad] of the six axes, then those of the two
\* magnitudes (SpecWindow). Eight blocks of six entries are 48.
CE_C35 ==
    LET X == _make_feature_vector_from_buffers(BUFF)
    IN  IF \E k \in AxisKeys : Len(BUFF[k]) < WINDOW
        THEN X.t = "None"
        ELSE /\ X.t = "array"
             /\ X.shape = <<1, 60>>
             /\ SubSeq(X.v, 1, 6) = BlockEntries(_feat_block(BUFF["acc_x"]))
             /\ SubSeq(X.v, 31, 36) = BlockEntries(_feat_block(BUFF["gyro_z"]))

\* The probability p is at least 0.5: the logistic value of a distance d is
\* at least 0.5 exactly when d >= 0
AtLeastHalf(p) ==
    \/ p.k = "sigmoid" /\ p.den > 0 /\ p.num >= 0
    \/ p.k = "model" /\ p.den > 0 /\ 2 * p.num >= p.den

BelowHalf(p) ==
    \/ p.k = "sigmoid" /\ p.den > 0 /\ p.num < 0
    \/ p.k = "model" /\ p.den > 0 /\ 2 * p.num < p.den

\* C36: label and confidence agree under the model, under the threshold rule
\* after a model failure and under the threshold rule alone: the label is R
\* exactly when prob_rapido >= 0.5 and L exactly when prob_rapido < 0.5, also
\* when F5 is the threshold itself (SpecClassify).
CE_C36 ==
    c_out.t = "Done"
    => /\ (c_out.label = "R" <=> AtLeastHalf(c_out.prob))
       /\ (c_out.label = "L" <=> BelowHalf(c_out.prob))

\* The L/R tag in the name of a file of OUT_DIR: v{idx}_{tag}.csv of
\* registros.py, {tag}{idx}.csv of registros_csv.py
TagInName(name) == IF name[1] = "v" THEN name[Len(name) - Len(S_csv)] ELSE name[1]

\* C37: every file a recorder writes carries a single label: all of its rows
\* have the same L/R tag, and that tag is the one in the file's name, whatever
\* input_monitor does to CURRENT_TAG meanwhile
CE_C37 ==
    [][\A f \in files' \ files :
         \A i \in 1..Len(m_rows') : m_rows'[i] = TagInName(f)]_vars

\* main and udp_loop have both finished the same number of iterations
InSync == pc = "top" /\ received = b_received /\ exc = "none" /\ b_exc = "none"

\* C38: servidor_basico.py main and servidor_web.py udp_loop, fed the same
\* datagrams at the same clock readings, have after every iteration the same
\* window, the same time of the last inference cycle and the same sample
\* count in the last inference they ran
CE_C38 ==
    InSync => /\ window = b_window
              /\ last_pred_t = b_last_pred_t
              /\ last_pred["n"] = b_out.n

====
